---- MODULE Spec2Model ----
(***************************************************************************)
(* A state-machine model of the content script src/src/index.ts: the       *)
(* Filter engine (settings and counter loading, the two-pass post scan,    *)
(* the account-age resolver with its cache, in-flight set and rate-limit   *)
(* state, the mutation observer with its debounce timer, the periodic      *)
(* poll, destroy) and the module-level bootstrap (main, the onMessage      *)
(* listener, the load listener).                                           *)
(*                                                                         *)
(* Time is counted in ticks of 50 ms: every duration of the source         *)
(* (100 ms, 2000 ms, 3600000 ms, a day, a 30.44-day month) is a whole      *)
(* number of ticks, and a month of ticks still fits TLC's integers.        *)
(***************************************************************************)
EXTENDS Integers, Sequences, FiniteSets, TLC

----------------------------------------------------------------------------
(* Program constants, in the source's units.                               *)

DEBOUNCE_MS == 100
POLL_MS == 2000
CACHE_TTL_MS == 3600000
RATE_FLOOR == 20
INITIAL_REMAINING == 500
INITIAL_RESET_MS == 600000
DEFAULT_MIN_AGE == 12

Ticks(ms) == ms \div 50
TicksPerDay == Ticks(1000 * 60 * 60 * 24)
\* 1000 * 60 * 60 * 24 * 30.44 ms, in ticks
TicksPerMonth == (Ticks(1000 * 60 * 60 * 24) \div 100) * 3044

----------------------------------------------------------------------------
(* Bounds of the model.                                                    *)

MaxInst == 2
MaxBatches == 2
MaxDeferred == 1
MaxPolls == 2           \* life cycle: time runs for this many poll periods
MaxDebounceTicks == 4   \* debounce window: time runs for this many 50 ms ticks
MaxDays == 1            \* day change: time runs for this many days
MaxHours == 1           \* cache: time runs for this many cache lifetimes
MaxPollRuns == 3         \* poll: time runs for this many poll periods
MaxListLen == 2         \* matching: keyword and subreddit lists up to this length
MaxChanges == 2         \* popup: the slider is moved this many times

----------------------------------------------------------------------------
(* Text: a string is a sequence of one-character strings.                  *)

LowerLetters == {"a", "b", "c", "e", "k", "n", "r", "s", "t", "w"}
UpperLetters == {"B", "N", "R"}
Digits == {"2"}
RegexMeta == {".", "*", "+", "?", "^", "$", "{", "}", "(", ")", "|", "[", "]", "\\"}

toLowerCaseChar(c) ==
    CASE c = "B" -> "b"
      [] c = "N" -> "n"
      [] c = "R" -> "r"
      [] OTHER -> c

toLowerCase(s) == [j \in 1..Len(s) |-> toLowerCaseChar(s[j])]

\* \w of a JavaScript regular expression
IsWordChar(c) == c \in LowerLetters \cup UpperLetters \cup Digits \cup {"_"}

\* keyword.replace(/[.*+?^${}()|[\]\\]/g, '\\$&')
RECURSIVE escapeRegExp(_)
escapeRegExp(s) ==
    IF s = <<>> THEN <<>>
    ELSE (IF Head(s) \in RegexMeta THEN <<"\\", Head(s)>> ELSE <<Head(s)>>)
         \o escapeRegExp(Tail(s))

\* The atoms of a pattern source: "\" followed by c is the literal c, an
\* unescaped metacharacter is the wildcard "." or an operator this engine
\* does not interpret (matches nothing), any other character is itself.
RECURSIVE PatternAtoms(_)
PatternAtoms(src) ==
    IF src = <<>> THEN <<>>
    ELSE IF Head(src) = "\\" /\ Len(src) >= 2
         THEN <<[lit |-> TRUE, ch |-> src[2]]>> \o PatternAtoms(Tail(Tail(src)))
         ELSE <<[lit |-> Head(src) \notin RegexMeta, ch |-> Head(src)]>>
              \o PatternAtoms(Tail(src))

AtomMatches(a, c) ==
    IF a.lit THEN toLowerCaseChar(a.ch) = toLowerCaseChar(c)   \* flag 'i'
    ELSE a.ch = "."

\* \b at position p: between text[p-1] and text[p]
WordBoundaryAt(text, p) ==
    LET before == p >= 2 /\ p - 1 <= Len(text) /\ IsWordChar(text[p - 1])
        after == p >= 1 /\ p <= Len(text) /\ IsWordChar(text[p])
    IN before # after

\* new RegExp(`\\b${source}\\b`, 'i').test(text)
RegExpTest(source, text) ==
    LET atoms == PatternAtoms(source)
        n == Len(atoms)
    IN \E start \in 1..(Len(text) + 1) :
          /\ start + n - 1 <= Len(text)
          /\ WordBoundaryAt(text, start)
          /\ \A j \in 1..n : AtomMatches(atoms[j], text[start + j - 1])
          /\ WordBoundaryAt(text, start + n)

KeywordMatches(keyword, text) ==
    RegExpTest(escapeRegExp(toLowerCase(keyword)), toLowerCase(text))

\* The first keyword in list order whose pattern tests true, <<>> for null.
findMatchingKeyword(text, keywords) ==
    IF \E j \in 1..Len(keywords) : KeywordMatches(keywords[j], text)
    THEN keywords[CHOOSE j \in 1..Len(keywords) :
                     /\ KeywordMatches(keywords[j], text)
                     /\ \A m \in 1..(j - 1) : ~KeywordMatches(keywords[m], text)]
    ELSE <<>>

\* Mutant: a blocked entry that is a prefix of the name blocks it.
isBlockedSubredditByPrefix(subredditName, subreddits) ==
    \E j \in 1..Len(subreddits) :
        /\ Len(subreddits[j]) <= Len(subredditName)
        /\ toLowerCase(subreddits[j])
             = SubSeq(toLowerCase(subredditName), 1, Len(subreddits[j]))

isBlockedSubreddit(subredditName, subreddits) ==
    \E j \in 1..Len(subreddits) :
        toLowerCase(subreddits[j]) = toLowerCase(subredditName)

----------------------------------------------------------------------------
(* The feed.  A post of the page is one top-level element: an <article>    *)
(* (with or without an aria-label) that may contain a <shreddit-post>, or  *)
(* a <shreddit-post> on its own.  An absent attribute reads as the empty   *)
(* string: the source turns null into '' or tests truthiness everywhere.   *)
(* The page's posts are a fixed catalogue, in document order.              *)

T_ban_news == <<"B", "a", "n", " ", "n", "e", "w", "s">>
T_cats == <<"c", "a", "t", "s">>
T_cake == <<"c", "a", "k", "e">>
R_news == <<"r", "/", "n", "e", "w", "s">>
R_Rant == <<"r", "/", "R", "a", "n", "t">>
R_rant2 == <<"r", "/", "r", "a", "n", "t", "2">>
K_ban == <<"b", "a", "n">>
K_BaN == <<"B", "a", "N">>
K_news == <<"n", "e", "w", "s">>
K_cplus == <<"c", "+">>
K_cdot == <<"c", ".", "k", "e">>
T_banana == <<"b", "a", "n", "a", "n", "a">>
T_cplus_news == <<"c", "+", " ", "n", "e", "w", "s">>
T_cplusb == <<"c", "+", "b">>
S_rant == <<"r", "/", "r", "a", "n", "t">>

\* article: wrapped in an <article>; hasAria/aria: its aria-label;
\* shreddit: holds a <shreddit-post> with post-title, subreddit-prefixed-name
\* and author attributes.
Posts == <<
    [article |-> TRUE, hasAria |-> TRUE, aria |-> T_ban_news, shreddit |-> TRUE,
     postTitle |-> T_ban_news, sub |-> R_news, author |-> "al"],
    [article |-> FALSE, hasAria |-> FALSE, aria |-> <<>>, shreddit |-> TRUE,
     postTitle |-> T_cats, sub |-> R_Rant, author |-> "bo"],
    [article |-> TRUE, hasAria |-> TRUE, aria |-> T_cake, shreddit |-> TRUE,
     postTitle |-> T_cake, sub |-> R_rant2, author |-> "cy"],
    [article |-> FALSE, hasAria |-> FALSE, aria |-> <<>>, shreddit |-> TRUE,
     postTitle |-> T_ban_news, sub |-> R_news, author |-> "bo"],
    [article |-> TRUE, hasAria |-> FALSE, aria |-> <<>>, shreddit |-> TRUE,
     postTitle |-> T_ban_news, sub |-> R_news, author |-> ""]
>>

PostIds == DOMAIN Posts
Handles == {"al", "bo", "cy"}

\* document.querySelectorAll('article[aria-label], shreddit-post') over the
\* attached posts, in document order: <<post, tagName>> pairs.
PostNodes(k) ==
    (IF Posts[k].article /\ Posts[k].hasAria THEN <<<<k, "ARTICLE">>>> ELSE <<>>)
    \o (IF Posts[k].shreddit THEN <<<<k, "SHREDDIT-POST">>>> ELSE <<>>)

RECURSIVE SelectFrom(_, _)
SelectFrom(k, attached) ==
    IF k > Len(Posts) THEN <<>>
    ELSE (IF k \in attached THEN PostNodes(k) ELSE <<>>) \o SelectFrom(k + 1, attached)

querySelectorAll(attached) == SelectFrom(1, attached)

\* post.tagName === 'SHREDDIT-POST' ? post : post.querySelector('shreddit-post')
HasShredditPost(node) == Posts[node[1]].shreddit

\* post.closest('article'): the article a node is, or is nested in
HasArticleParent(node) == Posts[node[1]].article

\* The title a reader sees: the aria-label of the article, or the post's own
\* post-title attribute.
DisplayTitles(k) ==
    (IF Posts[k].article /\ Posts[k].hasAria THEN {Posts[k].aria} ELSE {})
    \cup (IF Posts[k].shreddit THEN {Posts[k].postTitle} ELSE {})

----------------------------------------------------------------------------
(* Pass 1 of removePosts, per node of the snapshot.                        *)

\* shouldRemove after the three checks of the loop body
shouldRemove(node, s) ==
    LET p == Posts[node[1]]
        byAria == /\ node[2] = "ARTICLE"
                  /\ findMatchingKeyword(p.aria, s.keywords) # <<>>
        subredditName == IF HasShredditPost(node) THEN p.sub ELSE <<>>
        bySub == subredditName # <<>> /\ isBlockedSubreddit(subredditName, s.subreddits)
        byParent == /\ ~(byAria \/ bySub)
                    /\ node[2] = "SHREDDIT-POST"
                    /\ HasArticleParent(node)
                    /\ findMatchingKeyword(p.aria, s.keywords) # <<>>
    IN byAria \/ bySub \/ byParent

\* Mutant: the queue condition without the apiPaused test.
queuedIgnoringPause(node, s, remaining) ==
    /\ ~shouldRemove(node, s)
    /\ HasShredditPost(node)
    /\ Posts[node[1]].author # ""
    /\ remaining > RATE_FLOOR

\* Mutant: the queue condition without the test of the author attribute.
queuedWithoutAuthor(node, s, remaining) ==
    /\ ~shouldRemove(node, s)
    /\ HasShredditPost(node)
    /\ ~s.apiPaused
    /\ remaining > RATE_FLOOR

\* the condition under which the node is pushed on postsToAgeCheck
queuedForAgeCheck(node, s, remaining) ==
    /\ ~shouldRemove(node, s)
    /\ HasShredditPost(node)
    /\ ~s.apiPaused
    /\ Posts[node[1]].author # ""
    /\ remaining > RATE_FLOOR

\* What one run of the loop does to a snapshot: the nodes whose removal
\* branch runs (each calls remove() on its article or itself and then
\* incrementCountersSync), and the age-check queue.
Pass1(nodes, s, remaining) ==
    LET hits == SelectSeq(nodes, LAMBDA n : shouldRemove(n, s))
    IN [removeCalls |-> Len(hits),
        detached |-> {hits[j][1] : j \in 1..Len(hits)},
        queue |-> SelectSeq(nodes, LAMBDA n : queuedForAgeCheck(n, s, remaining))]

----------------------------------------------------------------------------
(* The account-age resolver: pure parts.                                   *)

\* A Date | null: kind "null", "invalid" (new Date of an unparseable string:
\* a truthy Date whose getTime() is NaN) or "date" with its time in ticks.
NullDate == [kind |-> "null", t |-> 0]
InvalidDate == [kind |-> "invalid", t |-> 0]
DateAt(t) == [kind |-> "date", t |-> t]

\* A datetime attribute: absent, an unparseable string, or a timestamp.
NoAttr == [kind |-> "none", t |-> 0]
BadAttr == [kind |-> "bad", t |-> 0]
TimeAttr(t) == [kind |-> "ts", t |-> t]

\* new Date(datetime)
NewDate(attr) == IF attr.kind = "ts" THEN DateAt(attr.t) ELSE InvalidDate

\* body: which of the two <time> elements the profile HTML holds (primary:
\* the structural selector path; fallback: time[data-testid="cake-day"]) and
\* their datetime attributes.
parseAccountCreationDate(body) ==
    IF ~body.primaryEl
    THEN IF body.fallbackEl /\ body.fallbackDt.kind # "none"
         THEN NewDate(body.fallbackDt)
         ELSE NullDate
    ELSE IF body.primaryDt.kind = "none"
         THEN NullDate
         ELSE NewDate(body.primaryDt)

\* Mutant: every account with a creation date counts as too young.
isAccountTooYoungAnyDate(createdAt, t, minAccountAge) == createdAt.kind = "date"

\* Mutant: an account exactly as old as the minimum counts as too young.
isAccountTooYoungInclusive(createdAt, t, minAccountAge) ==
    /\ createdAt.kind = "date"
    /\ (t - createdAt.t) <= minAccountAge * TicksPerMonth

\* ageInMonths < minAccountAge, ageInMonths = (now - createdAt) / month;
\* a NaN age compares false.
isAccountTooYoung(createdAt, t, minAccountAge) ==
    /\ createdAt.kind = "date"
    /\ (t - createdAt.t) < minAccountAge * TicksPerMonth

\* A header: [has, v]; the source tests the string's truthiness and parses it.
NoHeader == [has |-> FALSE, v |-> 0]
Header(v) == [has |-> TRUE, v |-> v]

\* Mutant: the reset header's seconds are not added to the time of receipt.
updateRateLimitResetUnshifted(rate, hdr, t) ==
    [remaining |-> IF hdr.remaining.has THEN hdr.remaining.v ELSE rate.remaining,
     reset |-> IF hdr.reset.has THEN Ticks(hdr.reset.v * 1000) ELSE rate.reset,
     used |-> IF hdr.used.has THEN hdr.used.v ELSE rate.used]

updateRateLimitFromHeaders(rate, hdr, t) ==
    [remaining |-> IF hdr.remaining.has THEN hdr.remaining.v ELSE rate.remaining,
     reset |-> IF hdr.reset.has THEN t + Ticks(hdr.reset.v * 1000) ELSE rate.reset,
     used |-> IF hdr.used.has THEN hdr.used.v ELSE rate.used]

NoEntry == [present |-> FALSE, createdAt |-> NullDate, fetchedAt |-> 0]

\* Mutant: the cache entry's age is not checked against the hour.
CacheNeverLive(cache, username, t) == FALSE

\* Mutant: an entry exactly one hour old still counts as live.
CacheLiveAtTheHour(cache, username, t) ==
    /\ cache[username].present
    /\ (t - cache[username].fetchedAt) <= Ticks(CACHE_TTL_MS)

CacheLive(cache, username, t) ==
    /\ cache[username].present
    /\ (t - cache[username].fetchedAt) < Ticks(CACHE_TTL_MS)

\* Mutant: fetchUserProfile without its rate-limit check.
FetchDecisionNoFloor(username, cache, s, rate, pend, t) ==
    IF CacheLive(cache, username, t) THEN "cached"
    ELSE IF s.apiPaused THEN "paused"
    ELSE IF username \in pend THEN "inflight"
    ELSE "network"

\* Mutant: fetchUserProfile without its duplicate-request check.
FetchDecisionNoInflight(username, cache, s, rate, pend, t) ==
    IF CacheLive(cache, username, t) THEN "cached"
    ELSE IF s.apiPaused THEN "paused"
    ELSE IF rate.remaining <= RATE_FLOOR THEN "floor"
    ELSE "network"

\* The path fetchUserProfile takes before its try block: "cached" (returns
\* the cached date), "paused", "floor" or "inflight" (returns null without
\* a request), or "network" (marks the handle and calls fetch).
FetchDecision(username, cache, s, rate, pend, t) ==
    IF CacheLive(cache, username, t) THEN "cached"
    ELSE IF s.apiPaused THEN "paused"
    ELSE IF rate.remaining <= RATE_FLOOR THEN "floor"
    ELSE IF username \in pend THEN "inflight"
    ELSE "network"

\* The for loop of processAgeChecks from its current item, up to the first
\* item whose lookup awaits the network (rest starts with it) or to the end:
\* the number of remove()+incrementCountersSync calls made, the posts they
\* name, and the paths the lookups took, as <<handle, path>>.
RECURSIVE AgePrefix(_, _, _, _, _, _)
AgePrefix(posts, s, cache, rate, pend, t) ==
    IF posts = <<>> THEN [calls |-> 0, detached |-> {}, rest |-> <<>>, paths |-> {}]
    ELSE LET node == Head(posts)
             author == Posts[node[1]].author
         IN IF ~HasShredditPost(node) \/ author = ""
            THEN AgePrefix(Tail(posts), s, cache, rate, pend, t)
            ELSE LET d == FetchDecision(author, cache, s, rate, pend, t)
                 IN IF d = "network"
                    THEN [calls |-> 0, detached |-> {}, rest |-> posts,
                          paths |-> {<<author, d>>}]
                    ELSE LET r == AgePrefix(Tail(posts), s, cache, rate, pend, t)
                             hit == /\ d = "cached"
                                    /\ isAccountTooYoung(cache[author].createdAt, t,
                                                         s.minAccountAge)
                         IN [calls |-> r.calls + (IF hit THEN 1 ELSE 0),
                             detached |-> r.detached \cup (IF hit THEN {node[1]} ELSE {}),
                             rest |-> r.rest,
                             paths |-> r.paths \cup {<<author, d>>}]

----------------------------------------------------------------------------
(* State.                                                                  *)

VARIABLES
    now,              \* Date.now(), in ticks
    feed,             \* the posts attached to the document
    toInsert,         \* the posts the page has yet to insert
    store,            \* browser.storage.local: filterSettings, filterCounters
    loadListener,     \* window 'load' listener registered and not yet fired
    filter,           \* the module-level filter variable (0: null)
    ninst,            \* number of Filter instances constructed so far
    ipc,              \* per instance: where its init() is
    settings,         \* per instance: this.settings
    counters,         \* per instance: this.counters
    rateLimitInfo,    \* per instance: this.rateLimitInfo
    userAgeCache,     \* per instance: this.userAgeCache
    pendingRequests,  \* per instance: this.pendingRequests
    observer,         \* per instance: this.observer is connected
    periodicTimer,    \* per instance: due time of the running interval (0: null)
    lastPostCount,    \* per instance: this.lastPostCount
    debounce,         \* per instance: pending debounce timeouts of its observer
    deferred,         \* per instance: pending setTimeout(..., 0) scan callbacks
    batches,          \* processAgeChecks invocations scheduled or in progress
    lastRequestAt,    \* history: per instance and handle, when a request for it
                      \* was last issued (-1: never)
    lookups,          \* history: the paths fetchUserProfile took in the latest
                      \* step of a batch, as <<handle, path>>
    destroyed,        \* history: the instances whose destroy() has returned
    call,             \* the latest direct call of a matching function: its
                      \* name, arguments and return value
    popup,            \* the popup page: where its PopupManager is, and the
                      \* counters its loadCounters() read
    awaiting,         \* history: per instance, a batch that added a feed item
                      \* reached its observer and it has run no scan since
    polledCount,      \* history: per instance, the number of feed items its
                      \* latest poll (before any, setupPeriodicCheck) counted
    popupSettings,    \* the popup page's side of the settings: where its
                      \* PopupManager is, its this.settings, its storage
                      \* writes in flight and the settingsUpdated messages
                      \* on their way to the content script
    createdBy         \* history: per instance, the settings change whose
                      \* settingsUpdated message constructed it (0: none)

vars == <<now, feed, toInsert, store, loadListener, filter, ninst, ipc, settings,
          counters, rateLimitInfo, userAgeCache, pendingRequests, observer,
          periodicTimer, lastPostCount, polledCount, debounce, deferred, batches, lastRequestAt,
          lookups, destroyed, call, popup, awaiting, popupSettings, createdBy>>

engineVars == <<filter, ninst, ipc, settings, counters, rateLimitInfo, userAgeCache,
                pendingRequests, observer, periodicTimer, lastPostCount, polledCount, debounce,
                deferred, batches, lastRequestAt, lookups, destroyed, awaiting>>

Inst == 1..MaxInst
BatchIds == 1..MaxBatches

\* A batch slot: the instance whose processAgeChecks it is, the items from
\* the current one on, and where it stands: "timer" (its zero-delay timeout
\* is pending), "fetch" (awaiting fetch() for the first item), "text"
\* (awaiting response.text() for it) or "free".
FreeBatch == [inst |-> 0, posts |-> <<>>, pc |-> "free"]
FreeSlots == {b \in BatchIds : batches[b].pc = "free"}
LowestFree == CHOOSE b \in FreeSlots : \A c \in FreeSlots : b <= c

\* new Date().toDateString(), as a day number
NoCall == [fn |-> "none", text |-> <<>>, list |-> <<>>, result |-> <<>>]

Today(t) == t \div TicksPerDay

DefaultSettings ==
    [keywords |-> <<K_ban>>, subreddits |-> <<S_rant>>, enabled |-> TRUE,
     minAccountAge |-> DEFAULT_MIN_AGE, apiPaused |-> FALSE]

\* { ...fields, ...blob }: every field of the blob, the others as they were.
Merge(fields, blob) ==
    [f \in DOMAIN fields \cup DOMAIN blob |->
        IF f \in DOMAIN blob THEN blob[f] ELSE fields[f]]

\* No popup page is open.
PopupClosed == [pc |-> "closed", counters |-> <<>>]
PopupSettingsClosed ==
    [pc |-> "closed", settings |-> DefaultSettings, changes |-> 0, writes |-> <<>>,
     sent |-> <<>>]

\* The field initialisers of class Filter, evaluated at time t.
NewCounters(t) == [totalRemoved |-> 0, dailyRemoved |-> 0, lastResetDate |-> Today(t)]
NewRateLimit(t) ==
    [remaining |-> INITIAL_REMAINING, reset |-> t + Ticks(INITIAL_RESET_MS), used |-> 0]
EmptyCache == [h \in Handles |-> NoEntry]

Inc(c, n) == [c EXCEPT !.totalRemoved = @ + n, !.dailyRemoved = @ + n]

\* The observer callback: clearTimeout(debounceTimer), then a new 100 ms
\* timeout that closes over this batch; the batch matters only through
\* whether one of its added nodes is or contains a feed item.
\* Mutant: the pending timeout is not cleared.
clearTimeoutForgotten(q) == q

clearTimeout(q) == IF q = <<>> THEN q ELSE SubSeq(q, 1, Len(q) - 1)

ObserverCallback(q, addsFeedItem, t) ==
    Append(clearTimeout(q), [due |-> t + Ticks(DEBOUNCE_MS), shouldCheck |-> addsFeedItem])

\* A childList mutation under the observed container reaches every connected
\* observer.
Notified(addsFeedItem) ==
    [j \in Inst |-> IF observer[j] THEN ObserverCallback(debounce[j], addsFeedItem, now)
                    ELSE debounce[j]]

\* The values the counters blob can hold after n incrementCountersSync calls
\* starting from c0, each followed by a save that succeeds or fails: the old
\* blob, or the counters as of the last save that succeeded.
\* Mutant: a save adds the new removals to the stored blob.
AfterSavesOverStored(c0, n) ==
    {store} \cup {[store EXCEPT !.filterCounters =
                      <<Inc(IF @ = <<>> THEN c0 ELSE @[1], j)>>] : j \in 1..n}

AfterSaves(c0, n) ==
    {store} \cup {[store EXCEPT !.filterCounters = <<Inc(c0, j)>>] : j \in 1..n}

----------------------------------------------------------------------------
(* Initial states: the content script has just run its top level.  Either   *)
(* the document was ready and main() constructed instance 1 and started    *)
(* its init(), or the load listener is registered.                         *)

Blank(ready) ==
    /\ now = 0
    /\ loadListener = ~ready
    /\ filter = (IF ready THEN 1 ELSE 0)
    /\ ninst = (IF ready THEN 1 ELSE 0)
    /\ ipc = [j \in Inst |-> IF ready /\ j = 1 THEN "loadSettings" ELSE "none"]
    /\ settings = [j \in Inst |-> DefaultSettings]
    /\ counters = [j \in Inst |-> NewCounters(0)]
    /\ rateLimitInfo = [j \in Inst |-> NewRateLimit(0)]
    /\ userAgeCache = [j \in Inst |-> EmptyCache]
    /\ pendingRequests = [j \in Inst |-> {}]
    /\ observer = [j \in Inst |-> FALSE]
    /\ periodicTimer = [j \in Inst |-> 0]
    /\ lastPostCount = [j \in Inst |-> 0]
    /\ polledCount = [j \in Inst |-> 0]
    /\ debounce = [j \in Inst |-> <<>>]
    /\ deferred = [j \in Inst |-> 0]
    /\ batches = [b \in BatchIds |-> FreeBatch]
    /\ lastRequestAt = [j \in Inst |-> [h \in Handles |-> 0 - 1]]
    /\ lookups = {}
    /\ destroyed = {}
    /\ call = NoCall
    /\ popup = PopupClosed
    /\ awaiting = [j \in Inst |-> FALSE]
    /\ popupSettings = PopupSettingsClosed
    /\ createdBy = [j \in Inst |-> 0]

----------------------------------------------------------------------------
(* main(), destroy() and the listeners of the module's top level.          *)

\* Mutant: the constructor connects the observer before init() has loaded
\* anything.
mainObserving(obs, timers) ==
    LET i == ninst + 1
    IN /\ ninst < MaxInst
       /\ ninst' = i
       /\ filter' = i
       /\ ipc' = [ipc EXCEPT ![i] = "loadSettings"]
       /\ settings' = [settings EXCEPT ![i] = DefaultSettings]
       /\ counters' = [counters EXCEPT ![i] = NewCounters(now)]
       /\ rateLimitInfo' = [rateLimitInfo EXCEPT ![i] = NewRateLimit(now)]
       /\ observer' = [obs EXCEPT ![i] = TRUE]
       /\ periodicTimer' = timers
       /\ UNCHANGED <<userAgeCache, pendingRequests, lastPostCount, polledCount, debounce,
                      deferred, batches, lastRequestAt, lookups>>

\* filter = new Filter(); filter.init() up to its first await
main(obs, timers) ==
    LET i == ninst + 1
    IN /\ ninst < MaxInst
       /\ ninst' = i
       /\ filter' = i
       /\ ipc' = [ipc EXCEPT ![i] = "loadSettings"]
       /\ settings' = [settings EXCEPT ![i] = DefaultSettings]
       /\ counters' = [counters EXCEPT ![i] = NewCounters(now)]
       /\ rateLimitInfo' = [rateLimitInfo EXCEPT ![i] = NewRateLimit(now)]
       /\ observer' = obs
       /\ periodicTimer' = timers
       /\ UNCHANGED <<userAgeCache, pendingRequests, lastPostCount, polledCount, debounce,
                      deferred, batches, lastRequestAt, lookups>>

\* window 'load' fires
LoadEvent ==
    /\ loadListener
    /\ loadListener' = FALSE
    /\ main(observer, periodicTimer)
    /\ UNCHANGED <<call, popup, popupSettings, createdBy, awaiting, now, feed, toInsert, store, destroyed>>

\* The popup has stored the settings blob v and sent 'settingsUpdated':
\* if (filter) filter.destroy(); main()
SettingsUpdated(v) ==
    /\ store' = [store EXCEPT !.filterSettings = <<v>>]
    /\ IF filter # 0
       THEN /\ main([observer EXCEPT ![filter] = FALSE],
                    [periodicTimer EXCEPT ![filter] = 0])
            /\ destroyed' = destroyed \cup {filter}
       ELSE /\ main(observer, periodicTimer)
            /\ UNCHANGED destroyed
    /\ UNCHANGED <<call, popup, popupSettings, createdBy, awaiting, now, feed, toInsert, loadListener>>

\* A 'requestCounters' message: the listener sends 'countersUpdated' with
\* filter?.getCounters() || { 0, 0, today }; call holds the push.
RequestCounters ==
    /\ call' = [fn |-> "countersUpdated",
                counters |-> IF filter # 0 THEN counters[filter] ELSE NewCounters(now)]
    /\ UNCHANGED <<popup, popupSettings, createdBy, now, feed, toInsert, store, loadListener, engineVars>>

----------------------------------------------------------------------------
(* removePosts, and the steps of init().                                   *)

\* setTimeout(() => this.processAgeChecks(postsToAgeCheck), 0): the batch
\* waits for its timer task.
\* Mutant: processAgeChecks is called in place, its first lookup under way.
processAgeChecksInPlace(i, postsToAgeCheck) ==
    [inst |-> i, posts |-> postsToAgeCheck, pc |-> "fetch"]

setTimeoutAgeChecks(i, postsToAgeCheck) ==
    [inst |-> i, posts |-> postsToAgeCheck, pc |-> "timer"]

\* removePosts() run by instance i whose counters are c0 when it starts:
\* pass 1 over a snapshot of the feed, each removal followed by
\* incrementCountersSync (its save may fail), then the pass-2 batch is set
\* on a zero-delay timeout.  The removals are childList mutations.
removePosts(i, c0) ==
    LET r == Pass1(querySelectorAll(feed), settings[i], rateLimitInfo[i].remaining)
    IN /\ feed' = feed \ r.detached
       /\ counters' = [counters EXCEPT ![i] = Inc(c0, r.removeCalls)]
       /\ store' \in AfterSaves(c0, r.removeCalls)
       /\ IF r.queue # <<>>
          THEN /\ FreeSlots # {}
               /\ batches' = [batches EXCEPT ![LowestFree] =
                                 setTimeoutAgeChecks(i, r.queue)]
          ELSE batches' = batches
       /\ debounce' = IF r.detached # {} THEN Notified(FALSE) ELSE debounce
       /\ awaiting' = [awaiting EXCEPT ![i] = FALSE]

\* setupObserver() and setupPeriodicCheck()
\* Mutant: init() leaves the watcher out.
setupObserverSkipped(i) == observer' = observer

setupObserver(i) == observer' = [observer EXCEPT ![i] = TRUE]

setupPeriodicCheck(i) ==
    /\ periodicTimer' = [periodicTimer EXCEPT ![i] = now + Ticks(POLL_MS)]
    /\ lastPostCount' = [lastPostCount EXCEPT ![i] = Len(querySelectorAll(feed'))]
    /\ polledCount' = [polledCount EXCEPT ![i] = Len(querySelectorAll(feed'))]

\* Mutant: init() scans and sets up the watcher whatever settings.enabled is.
InitTailAlways(i, c0) ==
    /\ ipc' = [ipc EXCEPT ![i] = "done"]
    /\ removePosts(i, c0)
    /\ setupObserver(i)
    /\ setupPeriodicCheck(i)

\* The tail of init() after both loads: counters c0 are in place.
InitTail(i, c0) ==
    /\ ipc' = [ipc EXCEPT ![i] = "done"]
    /\ IF settings[i].enabled
       THEN /\ removePosts(i, c0)
            /\ setupObserver(i)
            /\ setupPeriodicCheck(i)
       ELSE /\ counters' = [counters EXCEPT ![i] = c0]
            /\ UNCHANGED <<feed, store, batches, debounce, observer, periodicTimer,
                           lastPostCount, polledCount, awaiting>>

\* loadSettings(): the storage read settles.  A stored blob is merged over
\* the defaults; with no blob the defaults are saved (the save may fail, and
\* init() awaits it); a failed read leaves the defaults.
LoadSettingsDone(i) ==
    /\ ipc[i] = "loadSettings"
    /\ \/ /\ store.filterSettings # <<>>
          /\ settings' = [settings EXCEPT ![i] = Merge(settings[i], store.filterSettings[1])]
          /\ ipc' = [ipc EXCEPT ![i] = "loadCounters"]
          /\ store' = store
       \/ /\ store.filterSettings = <<>>
          /\ ipc' = [ipc EXCEPT ![i] = "saveSettings"]
          /\ store' \in {store, [store EXCEPT !.filterSettings = <<settings[i]>>]}
          /\ UNCHANGED settings
       \/ \* the same, the write reaching the storage only later
          /\ store.filterSettings = <<>>
          /\ ipc' = [ipc EXCEPT ![i] = "saveSettingsInFlight"]
          /\ UNCHANGED <<settings, store>>
       \/ /\ ipc' = [ipc EXCEPT ![i] = "loadCounters"]
          /\ UNCHANGED <<settings, store>>
    /\ UNCHANGED <<call, popup, popupSettings, createdBy, awaiting, now, feed, toInsert, loadListener, filter, ninst, counters,
                   rateLimitInfo, userAgeCache, pendingRequests, observer,
                   periodicTimer, lastPostCount, polledCount, debounce, deferred, batches,
                   lastRequestAt, lookups, destroyed>>

\* the awaited saveSettings() settles (a write still in flight has reached
\* the storage); loadCounters() issues its read
SaveSettingsDone(i) ==
    /\ ipc[i] \in {"saveSettings", "saveSettingsInFlight"}
    /\ ipc' = [ipc EXCEPT ![i] = "loadCounters"]
    /\ store' = IF ipc[i] = "saveSettingsInFlight"
                THEN [store EXCEPT !.filterSettings = <<settings[i]>>]
                ELSE store
    /\ UNCHANGED <<call, popup, popupSettings, createdBy, awaiting, now, feed, toInsert, loadListener, filter, ninst, settings,
                   counters, rateLimitInfo, userAgeCache, pendingRequests, observer,
                   periodicTimer, lastPostCount, polledCount, debounce, deferred, batches,
                   lastRequestAt, lookups, destroyed>>

\* loadCounters(): the storage read settles.
LoadCountersDone(i) ==
    /\ ipc[i] = "loadCounters"
    /\ \/ \* a blob dated today: merged, init() goes on at once
          /\ store.filterCounters # <<>>
          /\ Merge(counters[i], store.filterCounters[1]).lastResetDate = Today(now)
          /\ InitTail(i, Merge(counters[i], store.filterCounters[1]))
       \/ \* a blob of another day: daily reset, then await saveCounters()
          /\ store.filterCounters # <<>>
          /\ Merge(counters[i], store.filterCounters[1]).lastResetDate # Today(now)
          /\ LET c == [Merge(counters[i], store.filterCounters[1])
                           EXCEPT !.dailyRemoved = 0, !.lastResetDate = Today(now)]
             IN /\ counters' = [counters EXCEPT ![i] = c]
                /\ store' \in {store, [store EXCEPT !.filterCounters = <<c>>]}
          /\ ipc' = [ipc EXCEPT ![i] = "saveCounters"]
          /\ UNCHANGED <<feed, batches, debounce, observer, periodicTimer, lastPostCount, polledCount,
                         awaiting>>
       \/ \* no blob: await saveCounters() of the constructor's counters
          /\ store.filterCounters = <<>>
          /\ store' \in {store, [store EXCEPT !.filterCounters = <<counters[i]>>]}
          /\ ipc' = [ipc EXCEPT ![i] = "saveCounters"]
          /\ UNCHANGED <<counters, feed, batches, debounce, observer, periodicTimer,
                         lastPostCount, polledCount, awaiting>>
       \/ \* the read fails: 'Using default counters'
          InitTail(i, counters[i])
    /\ UNCHANGED <<call, popup, popupSettings, createdBy, now, toInsert, loadListener, filter, ninst, settings, rateLimitInfo,
                   userAgeCache, pendingRequests, deferred, lastRequestAt, lookups, destroyed>>

\* the awaited saveCounters() settles; init() goes on
SaveCountersDone(i) ==
    /\ ipc[i] = "saveCounters"
    /\ InitTail(i, counters[i])
    /\ UNCHANGED <<call, popup, popupSettings, createdBy, now, toInsert, loadListener, filter, ninst, settings, rateLimitInfo,
                   userAgeCache, pendingRequests, deferred, lastRequestAt, lookups, destroyed>>

----------------------------------------------------------------------------
(* The page, the clock, and the timers of the mutation watcher.            *)

\* The page inserts post k into the feed container.
PageInsert(k) ==
    /\ k \in toInsert
    /\ toInsert' = toInsert \ {k}
    /\ feed' = feed \cup {k}
    /\ debounce' = Notified(TRUE)
    /\ awaiting' = [j \in Inst |-> awaiting[j] \/ observer[j]]
    /\ UNCHANGED <<call, popup, popupSettings, createdBy, now, store, loadListener, filter, ninst, ipc, settings, counters,
                   rateLimitInfo, userAgeCache, pendingRequests, observer,
                   periodicTimer, lastPostCount, polledCount, deferred, batches, lastRequestAt,
                   lookups, destroyed>>

\* The page inserts a node that neither is nor contains a feed item.
PageInsertOther ==
    /\ \E j \in Inst : observer[j]
    /\ debounce' = Notified(FALSE)
    /\ UNCHANGED <<call, popup, popupSettings, createdBy, awaiting, now, feed, toInsert, store, loadListener, filter, ninst, ipc,
                   settings, counters, rateLimitInfo, userAgeCache, pendingRequests,
                   observer, periodicTimer, lastPostCount, polledCount, deferred, batches,
                   lastRequestAt, lookups, destroyed>>

\* d ticks pass
Tick(d, maxNow) ==
    /\ now + d <= maxNow
    /\ now' = now + d
    /\ UNCHANGED <<call, popup, popupSettings, createdBy, feed, toInsert, store, loadListener, engineVars>>

\* The oldest debounce timeout of instance i's observer fires.
DebounceFire(i) ==
    /\ debounce[i] # <<>>
    /\ now >= Head(debounce[i]).due
    /\ debounce' = [debounce EXCEPT ![i] = Tail(@)]
    /\ IF Head(debounce[i]).shouldCheck
       THEN /\ deferred[i] < MaxDeferred
            /\ deferred' = [deferred EXCEPT ![i] = @ + 1]
       ELSE UNCHANGED deferred
    /\ UNCHANGED <<call, popup, popupSettings, createdBy, awaiting, now, feed, toInsert, store, loadListener, filter, ninst, ipc,
                   settings, counters, rateLimitInfo, userAgeCache, pendingRequests,
                   observer, periodicTimer, lastPostCount, polledCount, batches, lastRequestAt,
                   lookups, destroyed>>

\* The interval of setupPeriodicCheck ticks.
PeriodicPoll(i) ==
    /\ periodicTimer[i] # 0
    /\ now >= periodicTimer[i]
    /\ periodicTimer' = [periodicTimer EXCEPT ![i] = now + Ticks(POLL_MS)]
    /\ polledCount' = [polledCount EXCEPT ![i] = Len(querySelectorAll(feed))]
    /\ LET currentPostCount == Len(querySelectorAll(feed))
       IN IF currentPostCount > lastPostCount[i]
          THEN /\ lastPostCount' = [lastPostCount EXCEPT ![i] = currentPostCount]
               /\ deferred[i] < MaxDeferred
               /\ deferred' = [deferred EXCEPT ![i] = @ + 1]
          ELSE UNCHANGED <<lastPostCount, deferred>>
    /\ UNCHANGED <<call, popup, popupSettings, createdBy, awaiting, now, feed, toInsert, store, loadListener, filter, ninst, ipc,
                   settings, counters, rateLimitInfo, userAgeCache, pendingRequests,
                   observer, debounce, batches, lastRequestAt, lookups, destroyed>>

\* A zero-delay timeout set by the observer path or the poll runs removePosts.
DeferredScan(i) ==
    /\ deferred[i] > 0
    /\ deferred' = [deferred EXCEPT ![i] = @ - 1]
    /\ removePosts(i, counters[i])
    /\ UNCHANGED <<call, popup, popupSettings, createdBy, now, toInsert, loadListener, filter, ninst, ipc, settings,
                   rateLimitInfo, userAgeCache, pendingRequests, observer,
                   periodicTimer, lastPostCount, polledCount, lastRequestAt, lookups, destroyed>>

----------------------------------------------------------------------------
(* Pass 2: processAgeChecks and fetchUserProfile.                          *)

AuthorOf(node) == Posts[node[1]].author

\* processAgeChecks of batch b (instance i) goes on with the items `posts`,
\* the resolver's state being cache1/rate1/pend1 and the item just settled
\* having made calls0 removal calls naming the posts detached0.  It runs to
\* the end of the batch or to the next fetch(), which it issues after
\* marking the handle in flight.
ContinueBatch(b, i, posts, cache1, rate1, pend1, calls0, detached0) ==
    LET r == AgePrefix(posts, settings[i], cache1, rate1, pend1, now)
        n == calls0 + r.calls
        gone == detached0 \cup r.detached
    IN /\ feed' = feed \ gone
       /\ counters' = [counters EXCEPT ![i] = Inc(@, n)]
       /\ store' \in AfterSaves(counters[i], n)
       /\ debounce' = IF gone \cap feed # {} THEN Notified(FALSE) ELSE debounce
       /\ userAgeCache' = [userAgeCache EXCEPT ![i] = cache1]
       /\ rateLimitInfo' = [rateLimitInfo EXCEPT ![i] = rate1]
       /\ lookups' = r.paths
       /\ IF r.rest # <<>>
          THEN /\ pendingRequests' =
                      [pendingRequests EXCEPT ![i] = pend1 \cup {AuthorOf(Head(r.rest))}]
               /\ lastRequestAt' =
                      [lastRequestAt EXCEPT ![i][AuthorOf(Head(r.rest))] = now]
               /\ batches' = [batches EXCEPT ![b] = [inst |-> i, posts |-> r.rest,
                                                     pc |-> "fetch"]]
          ELSE /\ pendingRequests' = [pendingRequests EXCEPT ![i] = pend1]
               /\ lastRequestAt' = lastRequestAt
               /\ batches' = [batches EXCEPT ![b] = FreeBatch]

\* finally { this.pendingRequests.delete(username) }
\* Mutant: the finally block leaves the marker.
pendingRequestsKept(pend, username) == pend

pendingRequestsDelete(pend, username) == pend \ {username}

\* The zero-delay timeout of removePosts runs processAgeChecks(postsToAgeCheck).
AgeChecksStart(b) ==
    /\ batches[b].pc = "timer"
    /\ LET i == batches[b].inst
       IN ContinueBatch(b, i, batches[b].posts, userAgeCache[i], rateLimitInfo[i],
                        pendingRequests[i], 0, {})
    /\ UNCHANGED <<call, popup, popupSettings, createdBy, awaiting, now, toInsert, loadListener, filter, ninst, ipc, settings, observer,
                   periodicTimer, lastPostCount, polledCount, deferred, destroyed>>

\* fetch() or response.text() rejects: the catch returns null, the finally
\* releases the handle, and the loop goes on with the next item.
FetchReject(b) ==
    /\ batches[b].pc \in {"fetch", "text"}
    /\ LET i == batches[b].inst
           h == AuthorOf(Head(batches[b].posts))
       IN ContinueBatch(b, i, Tail(batches[b].posts), userAgeCache[i], rateLimitInfo[i],
                        pendingRequestsDelete(pendingRequests[i], h), 0, {})
    /\ UNCHANGED <<call, popup, popupSettings, createdBy, awaiting, now, toInsert, loadListener, filter, ninst, ipc, settings, observer,
                   periodicTimer, lastPostCount, polledCount, deferred, destroyed>>

\* fetch() resolves with a response: the rate-limit state is updated from
\* its headers; a non-OK response returns null (finally releases the
\* handle), an OK one awaits response.text().
FetchResolve(b, hdr, ok) ==
    /\ batches[b].pc = "fetch"
    /\ LET i == batches[b].inst
           h == AuthorOf(Head(batches[b].posts))
           rate1 == updateRateLimitFromHeaders(rateLimitInfo[i], hdr, now)
       IN IF ok
          THEN /\ rateLimitInfo' = [rateLimitInfo EXCEPT ![i] = rate1]
               /\ batches' = [batches EXCEPT ![b].pc = "text"]
               /\ lookups' = {}
               /\ UNCHANGED <<feed, counters, store, debounce, userAgeCache,
                              pendingRequests, lastRequestAt>>
          ELSE ContinueBatch(b, i, Tail(batches[b].posts), userAgeCache[i], rate1,
                             pendingRequestsDelete(pendingRequests[i], h), 0, {})
    /\ UNCHANGED <<call, popup, popupSettings, createdBy, awaiting, now, toInsert, loadListener, filter, ninst, ipc, settings, observer,
                   periodicTimer, lastPostCount, polledCount, deferred, destroyed>>

\* response.text() resolves: the date is parsed and, if one came out,
\* cached; the finally releases the handle; back in processAgeChecks a too
\* young account has its post removed and counted.
TextDone(b, body) ==
    /\ batches[b].pc = "text"
    /\ LET i == batches[b].inst
           node == Head(batches[b].posts)
           h == AuthorOf(node)
           createdAt == parseAccountCreationDate(body)
           cache1 == IF createdAt.kind # "null"
                     THEN [userAgeCache[i] EXCEPT
                              ![h] = [present |-> TRUE, createdAt |-> createdAt,
                                      fetchedAt |-> now]]
                     ELSE userAgeCache[i]
           young == isAccountTooYoung(createdAt, now, settings[i].minAccountAge)
       IN ContinueBatch(b, i, Tail(batches[b].posts), cache1, rateLimitInfo[i],
                        pendingRequestsDelete(pendingRequests[i], h),
                        IF young THEN 1 ELSE 0, IF young THEN {node[1]} ELSE {})
    /\ UNCHANGED <<call, popup, popupSettings, createdBy, awaiting, now, toInsert, loadListener, filter, ninst, ipc, settings, observer,
                   periodicTimer, lastPostCount, polledCount, deferred, destroyed>>

----------------------------------------------------------------------------
(* What the environment may send.                                          *)

H_none == [remaining |-> NoHeader, reset |-> NoHeader, used |-> NoHeader]
H_low == [remaining |-> Header(15), reset |-> Header(600), used |-> Header(485)]
H_some == [remaining |-> Header(400), reset |-> NoHeader, used |-> Header(100)]
HeaderSets == {H_none, H_low, H_some}

YoungTime == 0 - TicksPerMonth
OldTime == 0 - 24 * TicksPerMonth

B_young == [primaryEl |-> TRUE, primaryDt |-> TimeAttr(YoungTime),
            fallbackEl |-> FALSE, fallbackDt |-> NoAttr]
B_old == [primaryEl |-> TRUE, primaryDt |-> TimeAttr(OldTime),
          fallbackEl |-> FALSE, fallbackDt |-> NoAttr]
B_none == [primaryEl |-> FALSE, primaryDt |-> NoAttr,
           fallbackEl |-> FALSE, fallbackDt |-> NoAttr]
\* the <time> element carries a datetime that Date cannot parse
B_bad == [primaryEl |-> TRUE, primaryDt |-> BadAttr,
          fallbackEl |-> FALSE, fallbackDt |-> NoAttr]

S_paused == [DefaultSettings EXCEPT !.apiPaused = TRUE]
S_disabled == [DefaultSettings EXCEPT !.enabled = FALSE]

C_stored == [totalRemoved |-> 5, dailyRemoved |-> 2, lastResetDate |-> 0]
\* blobs that lack fields
S_partial == [apiPaused |-> TRUE]
C_partial == [totalRemoved |-> 5, dailyRemoved |-> 2]
C_yesterday == [totalRemoved |-> 5, dailyRemoved |-> 2, lastResetDate |-> 0 - 1]

----------------------------------------------------------------------------
(* A scan on demand: the zero-delay timeout set by the observer path or by *)
(* the poll runs removePosts; when the watcher sets it is left open (any   *)
(* insertion of an <article> sets one).                                    *)

TriggeredScan(i) ==
    /\ ipc[i] = "done"
    /\ settings[i].enabled
    /\ removePosts(i, counters[i])
    /\ UNCHANGED <<call, popup, popupSettings, createdBy, now, toInsert, loadListener, filter, ninst, ipc, settings,
                   rateLimitInfo, userAgeCache, pendingRequests, observer,
                   periodicTimer, lastPostCount, polledCount, deferred, lastRequestAt, lookups, destroyed>>

----------------------------------------------------------------------------
(* Spec: the life cycle.  The page inserts one post whose aria-label       *)
(* holds a keyword (no item is ever queued for pass 2); the popup stores   *)
(* settings and sends settingsUpdated; the load event may still be due.    *)

Init ==
    /\ \E ready \in BOOLEAN : Blank(ready)
    /\ feed = {}
    /\ toInsert = {1}
    /\ store = [filterSettings |-> <<DefaultSettings>>, filterCounters |-> <<C_stored>>]

Next ==
    \/ \E i \in Inst : LoadSettingsDone(i)
    \/ \E i \in Inst : LoadCountersDone(i)
    \/ \E i \in Inst : DebounceFire(i)
    \/ \E i \in Inst : PeriodicPoll(i)
    \/ \E i \in Inst : DeferredScan(i)
    \/ \E k \in PostIds : PageInsert(k)
    \/ PageInsertOther
    \/ LoadEvent
    \/ SettingsUpdated(DefaultSettings)
    \/ Tick(Ticks(POLL_MS), MaxPolls * Ticks(POLL_MS))

Spec == Init /\ [][Next]_vars

\* SpecMessages: the life cycle with the popup asking for the counters at
\* any moment.
NextMessages ==
    \/ \E i \in Inst : LoadSettingsDone(i)
    \/ \E i \in Inst : LoadCountersDone(i)
    \/ \E i \in Inst : DebounceFire(i)
    \/ \E i \in Inst : PeriodicPoll(i)
    \/ \E i \in Inst : DeferredScan(i)
    \/ \E k \in PostIds : PageInsert(k)
    \/ PageInsertOther
    \/ LoadEvent
    \/ SettingsUpdated(DefaultSettings)
    \/ RequestCounters
    \/ Tick(Ticks(POLL_MS), MaxPolls * Ticks(POLL_MS))

SpecMessages == Init /\ [][NextMessages]_vars

\* SpecToggle: the life cycle with the popup's enable switch.  The stored
\* settings and those that come with settingsUpdated have the filter enabled
\* or disabled; the counters blob is of today or of an earlier day; the page
\* inserts a post whose nodes are queued for pass 2, every lookup finds a
\* young account, and time runs for one poll period.
InitToggle ==
    /\ Blank(TRUE)
    /\ feed = {}
    /\ toInsert = {3}
    /\ store \in [filterSettings : {<<DefaultSettings>>, <<S_disabled>>},
                  filterCounters : {<<C_stored>>, <<C_yesterday>>}]

NextToggle ==
    \/ \E i \in Inst : LoadSettingsDone(i)
    \/ \E i \in Inst : LoadCountersDone(i)
    \/ \E i \in Inst : SaveCountersDone(i)
    \/ \E i \in Inst : DebounceFire(i)
    \/ \E i \in Inst : PeriodicPoll(i)
    \/ \E i \in Inst : DeferredScan(i)
    \/ \E k \in PostIds : PageInsert(k)
    \/ \E v \in {DefaultSettings, S_disabled} : SettingsUpdated(v)
    \/ \E b \in BatchIds : AgeChecksStart(b)
    \/ \E b \in BatchIds : FetchResolve(b, H_none, TRUE)
    \/ \E b \in BatchIds : TextDone(b, B_young)
    \/ Tick(Ticks(POLL_MS), Ticks(POLL_MS))

SpecToggle == InitToggle /\ [][NextToggle]_vars
----------------------------------------------------------------------------
(* SpecScan: scans and age checks of one instance over posts of every     *)
(* shape of the catalogue, with every kind of response.                    *)

InitScan ==
    /\ Blank(TRUE)
    /\ feed = {}
    /\ toInsert \in {{1, 4}, {2, 5}, {3}}
    /\ store \in {[filterSettings |-> <<>>, filterCounters |-> <<>>],
                  [filterSettings |-> <<DefaultSettings>>, filterCounters |-> <<C_stored>>],
                  [filterSettings |-> <<S_paused>>, filterCounters |-> <<C_stored>>]}

NextScan ==
    \/ \E i \in Inst : LoadSettingsDone(i)
    \/ \E i \in Inst : SaveSettingsDone(i)
    \/ \E i \in Inst : LoadCountersDone(i)
    \/ \E i \in Inst : SaveCountersDone(i)
    \/ \E i \in Inst : TriggeredScan(i)
    \/ \E k \in PostIds : PageInsert(k)
    \/ \E b \in BatchIds : AgeChecksStart(b)
    \/ \E b \in BatchIds : FetchReject(b)
    \/ \E b \in BatchIds, hdr \in HeaderSets, ok \in BOOLEAN : FetchResolve(b, hdr, ok)
    \/ \E b \in BatchIds, body \in {B_young, B_old, B_none, B_bad} : TextDone(b, body)

SpecScan == InitScan /\ [][NextScan]_vars

----------------------------------------------------------------------------
(* SpecInit: init() of the first instance over every shape of the stored   *)
(* blobs (absent, whole, lacking fields, disabled) and a feed that already *)
(* holds posts; every read and every write may fail.                       *)

InitInit ==
    /\ Blank(TRUE)
    /\ feed \in {{}, {1, 2}, {3}}
    /\ toInsert = {}
    /\ store \in [filterSettings : {<<>>, <<DefaultSettings>>, <<S_disabled>>, <<S_partial>>},
                  filterCounters : {<<>>, <<C_stored>>, <<C_partial>>}]

NextInit ==
    \/ \E i \in Inst : LoadSettingsDone(i)
    \/ \E i \in Inst : SaveSettingsDone(i)
    \/ \E i \in Inst : LoadCountersDone(i)
    \/ \E i \in Inst : SaveCountersDone(i)

SpecInit == InitInit /\ [][NextInit]_vars

----------------------------------------------------------------------------
(* SpecBatch: SpecScan under fair scheduling.  The awaited storage reads   *)
(* of init() settle and the zero-delay timeout of a scan runs: weak        *)
(* fairness on each.  The network owes nothing: a fetch or a body read may *)
(* stay pending for ever, and no timeout or abort signal is passed to      *)
(* fetch.                                                                  *)

SpecBatch ==
    /\ InitScan
    /\ [][NextScan]_vars
    /\ \A i \in Inst : /\ WF_vars(LoadSettingsDone(i))
                       /\ WF_vars(SaveSettingsDone(i))
                       /\ WF_vars(LoadCountersDone(i))
                       /\ WF_vars(SaveCountersDone(i))
    /\ \A b \in BatchIds : WF_vars(AgeChecksStart(b))

----------------------------------------------------------------------------
(* SpecDebounce: the observer's debounce window.  One instance; the page   *)
(* inserts two posts and other nodes while time passes in 50 ms ticks,     *)
(* short of the first poll.                                                *)

InitDebounce ==
    /\ Blank(TRUE)
    /\ feed = {}
    /\ toInsert = {1, 2}
    /\ store = [filterSettings |-> <<DefaultSettings>>, filterCounters |-> <<C_stored>>]

NextDebounce ==
    \/ \E i \in Inst : LoadSettingsDone(i)
    \/ \E i \in Inst : LoadCountersDone(i)
    \/ \E i \in Inst : DebounceFire(i)
    \/ \E i \in Inst : DeferredScan(i)
    \/ \E k \in PostIds : PageInsert(k)
    \/ PageInsertOther
    \/ Tick(1, MaxDebounceTicks)

SpecDebounce == InitDebounce /\ [][NextDebounce]_vars

----------------------------------------------------------------------------
(* SpecWatch: the watcher of one instance under fair scheduling.  The page *)
(* inserts two posts and other nodes during the first poll period and is   *)
(* quiet afterwards; time goes on for one debounce window and one more     *)
(* poll period, so that every timer set by the last mutation has fired and *)
(* a poll has run after it.  Timers fire when they are due: time passes    *)
(* only while no callback is due, by one tick or up to the next due time.  *)
(* Due timers fire, zero-delay timeouts run, awaited storage reads settle  *)
(* and time passes: weak fairness on each.                                 *)

QuietAt == Ticks(POLL_MS)
Horizon == QuietAt + Ticks(DEBOUNCE_MS) + Ticks(POLL_MS)

\* the times at which a pending timer callback is due
DueTimes ==
    {Head(debounce[i]).due : i \in {j \in Inst : debounce[j] # <<>>}}
        \cup {periodicTimer[i] : i \in {j \in Inst : periodicTimer[j] # 0}}

TimePasses ==
    /\ \A i \in Inst : deferred[i] = 0
    /\ \A u \in DueTimes : u > now
    /\ \E t \in {now + 1} \cup DueTimes :
          /\ \A u \in DueTimes : t <= u
          /\ t = now + 1 => now < QuietAt + Ticks(DEBOUNCE_MS)
          /\ Tick(t - now, Horizon)

NextWatch ==
    \/ \E i \in Inst : LoadSettingsDone(i)
    \/ \E i \in Inst : LoadCountersDone(i)
    \/ \E i \in Inst : DebounceFire(i)
    \/ \E i \in Inst : PeriodicPoll(i)
    \/ \E i \in Inst : DeferredScan(i)
    \/ \E k \in PostIds : now <= QuietAt /\ PageInsert(k)
    \/ now <= QuietAt /\ PageInsertOther
    \/ TimePasses

SpecWatch ==
    /\ InitDebounce
    /\ [][NextWatch]_vars
    /\ \A i \in Inst : /\ WF_vars(LoadSettingsDone(i))
                       /\ WF_vars(LoadCountersDone(i))
                       /\ WF_vars(DebounceFire(i))
                       /\ WF_vars(PeriodicPoll(i))
                       /\ WF_vars(DeferredScan(i))
    /\ WF_vars(TimePasses)

----------------------------------------------------------------------------
(* SpecPoll: the periodic poll of one instance over several periods, while *)
(* the page inserts two posts and scans remove them.                       *)

NextPoll ==
    \/ \E i \in Inst : LoadSettingsDone(i)
    \/ \E i \in Inst : LoadCountersDone(i)
    \/ \E i \in Inst : DebounceFire(i)
    \/ \E i \in Inst : PeriodicPoll(i)
    \/ \E i \in Inst : DeferredScan(i)
    \/ \E k \in PostIds : PageInsert(k)
    \/ Tick(Ticks(POLL_MS), MaxPollRuns * Ticks(POLL_MS))

SpecPoll == InitDebounce /\ [][NextPoll]_vars

----------------------------------------------------------------------------
(* SpecDay: one instance runs while the calendar date changes; once it is *)
(* initialised, time passes in half days.                                  *)

InitDay ==
    /\ Blank(TRUE)
    /\ feed = {}
    /\ toInsert \in {{1}, {2}}
    /\ store \in {[filterSettings |-> <<>>, filterCounters |-> <<>>],
                  [filterSettings |-> <<DefaultSettings>>, filterCounters |-> <<C_stored>>],
                  [filterSettings |-> <<DefaultSettings>>, filterCounters |-> <<C_yesterday>>]}

NextDay ==
    \/ \E i \in Inst : LoadSettingsDone(i)
    \/ \E i \in Inst : SaveSettingsDone(i)
    \/ \E i \in Inst : LoadCountersDone(i)
    \/ \E i \in Inst : SaveCountersDone(i)
    \/ \E i \in Inst : DebounceFire(i)
    \/ \E i \in Inst : PeriodicPoll(i)
    \/ \E i \in Inst : DeferredScan(i)
    \/ \E k \in PostIds : PageInsert(k)
    \/ (\A i \in Inst : ipc[i] \in {"none", "done"})
          /\ Tick(TicksPerDay \div 2, MaxDays * TicksPerDay)

SpecDay == InitDay /\ [][NextDay]_vars

----------------------------------------------------------------------------
(* The popup page.  new PopupManager() runs init(): loadSettings(), then   *)
(* loadCounters(); on later openings refreshCounters() runs loadCounters() *)
(* again.  The popup and the content script are separate pages that share  *)
(* browser.storage.local, so each storage call of the popup is a step of   *)
(* its own.                                                                *)

\* The popup is opened once a settings blob is stored: its loadSettings()
\* reads it, and loadCounters() issues its read.
PopupOpen ==
    /\ popup.pc = "closed"
    /\ store.filterSettings # <<>>
    /\ popup' = [pc |-> "loadCounters", counters |-> <<>>]
    /\ UNCHANGED <<call, popupSettings, createdBy, now, feed, toInsert, store, loadListener, engineVars>>

\* PopupManager.loadCounters(): the read settles with the blob as it was
\* when the storage served it.  A blob of another day is reset and handed to
\* saveCounters(), which the popup awaits.
PopupLoadCountersDone ==
    /\ popup.pc = "loadCounters"
    /\ \/ /\ store.filterCounters # <<>>
          /\ store.filterCounters[1].lastResetDate = Today(now)
          /\ popup' = [pc |-> "open", counters |-> store.filterCounters]
       \/ /\ store.filterCounters # <<>>
          /\ store.filterCounters[1].lastResetDate # Today(now)
          /\ popup' = [pc |-> "saveCounters",
                       counters |-> <<[store.filterCounters[1] EXCEPT
                                          !.dailyRemoved = 0,
                                          !.lastResetDate = Today(now)]>>]
       \/ \* no blob, or the read fails
          popup' = [pc |-> "open", counters |-> <<>>]
    /\ UNCHANGED <<call, popupSettings, createdBy, now, feed, toInsert, store, loadListener, engineVars>>

\* PopupManager.saveCounters(): the write of the popup's counters lands, or
\* fails.
PopupSaveCountersDone ==
    /\ popup.pc = "saveCounters"
    /\ store' \in {store, [store EXCEPT !.filterCounters = popup.counters]}
    /\ popup' = [popup EXCEPT !.pc = "open"]
    /\ UNCHANGED <<call, popupSettings, createdBy, now, feed, toInsert, loadListener, engineVars>>

\* The popup page is closed.
PopupClose ==
    /\ popup.pc = "open"
    /\ popup' = PopupClosed
    /\ UNCHANGED <<call, popupSettings, createdBy, now, feed, toInsert, store, loadListener, engineVars>>

----------------------------------------------------------------------------
(* SpecPopup: SpecDay with the popup opened and closed at any time.        *)

NextPopup ==
    \/ \E i \in Inst : LoadSettingsDone(i)
    \/ \E i \in Inst : SaveSettingsDone(i)
    \/ \E i \in Inst : LoadCountersDone(i)
    \/ \E i \in Inst : SaveCountersDone(i)
    \/ \E i \in Inst : DebounceFire(i)
    \/ \E i \in Inst : PeriodicPoll(i)
    \/ \E i \in Inst : DeferredScan(i)
    \/ \E k \in PostIds : PageInsert(k)
    \/ (\A i \in Inst : ipc[i] \in {"none", "done"})
          /\ Tick(TicksPerDay \div 2, MaxDays * TicksPerDay)
    \/ PopupOpen
    \/ PopupLoadCountersDone
    \/ PopupSaveCountersDone
    \/ PopupClose

SpecPopup == InitDay /\ [][NextPopup]_vars

----------------------------------------------------------------------------
(* The popup page's settings.  loadSettings() takes the stored blob or,    *)
(* with none, saves the defaults; every change made in the page mutates    *)
(* this.settings and calls saveSettings() without awaiting it.             *)
(* saveSettings() awaits the storage write and then sends settingsUpdated  *)
(* to the active tab; a rejected write skips the message.                  *)

\* the key of the popup's browser.storage.local.set
PopupSettingsKey == "filterSettings"

\* saveSettings() is called: the write of the current this.settings is
\* issued; change is the change that called it (0: the save of the defaults)
saveSettingsIssued(p, change) ==
    [p EXCEPT !.writes = Append(@, [blob |-> p.settings, change |-> change])]

PopupSettingsOpen ==
    /\ popupSettings.pc = "closed"
    /\ popupSettings' = [popupSettings EXCEPT !.pc = "loadSettings"]
    /\ UNCHANGED <<call, popup, createdBy, now, feed, toInsert, store, loadListener,
                   engineVars>>

PopupLoadSettingsDone ==
    /\ popupSettings.pc = "loadSettings"
    /\ \/ /\ store.filterSettings # <<>>
          /\ popupSettings' = [popupSettings EXCEPT !.pc = "ready",
                                                    !.settings = store.filterSettings[1]]
       \/ /\ store.filterSettings = <<>>
          /\ popupSettings' = saveSettingsIssued([popupSettings EXCEPT !.pc = "saveDefaults"], 0)
       \/ \* the read fails
          popupSettings' = [popupSettings EXCEPT !.pc = "ready"]
    /\ UNCHANGED <<call, popup, createdBy, now, feed, toInsert, store, loadListener,
                   engineVars>>

\* The age slider is moved (each change sets a value not set before, so that
\* blobs can be told apart by age): this.settings.minAccountAge = value;
\* this.saveSettings()
PopupChange ==
    /\ popupSettings.pc = "ready"
    /\ popupSettings.changes < MaxChanges
    /\ LET k == popupSettings.changes + 1
       IN popupSettings' =
             saveSettingsIssued([popupSettings EXCEPT
                                    !.changes = k,
                                    !.settings.minAccountAge = DEFAULT_MIN_AGE + k], k)
    /\ UNCHANGED <<call, popup, createdBy, now, feed, toInsert, store, loadListener,
                   engineVars>>

\* The oldest storage write of the popup settles: it has stored its blob and
\* saveSettings() sends settingsUpdated, or it rejects and nothing is sent.
PopupSaveSettingsDone ==
    /\ popupSettings.writes # <<>>
    /\ LET w == Head(popupSettings.writes)
           pc1 == IF popupSettings.pc = "saveDefaults" THEN "ready" ELSE popupSettings.pc
       IN \/ /\ store' = [store EXCEPT ![PopupSettingsKey] = <<w.blob>>]
             /\ popupSettings' = [popupSettings EXCEPT
                                     !.pc = pc1,
                                     !.writes = Tail(@),
                                     !.sent = Append(@, w.change)]
          \/ /\ store' = store
             /\ popupSettings' = [popupSettings EXCEPT !.pc = pc1, !.writes = Tail(@)]
    /\ UNCHANGED <<call, popup, createdBy, now, feed, toInsert, loadListener, engineVars>>

\* The oldest settingsUpdated message reaches the content script's
\* listener: if (filter) filter.destroy(); main()
SettingsUpdatedReceived ==
    /\ popupSettings.sent # <<>>
    /\ popupSettings' = [popupSettings EXCEPT !.sent = Tail(@)]
    /\ createdBy' = [createdBy EXCEPT ![ninst + 1] = Head(popupSettings.sent)]
    /\ IF filter # 0
       THEN /\ main([observer EXCEPT ![filter] = FALSE],
                    [periodicTimer EXCEPT ![filter] = 0])
            /\ destroyed' = destroyed \cup {filter}
       ELSE /\ main(observer, periodicTimer)
            /\ UNCHANGED destroyed
    /\ UNCHANGED <<call, popup, awaiting, now, feed, toInsert, store, loadListener>>

----------------------------------------------------------------------------
(* SpecSettings: the content script starts with or without a stored        *)
(* settings blob while the popup is opened and the slider is moved.        *)

InitSettings ==
    /\ Blank(TRUE)
    /\ feed = {}
    /\ toInsert = {}
    /\ store \in {[filterSettings |-> <<>>, filterCounters |-> <<>>],
                  [filterSettings |-> <<DefaultSettings>>, filterCounters |-> <<C_stored>>]}

NextSettings ==
    \/ \E i \in Inst : LoadSettingsDone(i)
    \/ \E i \in Inst : SaveSettingsDone(i)
    \/ \E i \in Inst : LoadCountersDone(i)
    \/ \E i \in Inst : SaveCountersDone(i)
    \/ PopupSettingsOpen
    \/ PopupLoadSettingsDone
    \/ PopupChange
    \/ PopupSaveSettingsDone
    \/ SettingsUpdatedReceived

SpecSettings == InitSettings /\ [][NextSettings]_vars

----------------------------------------------------------------------------
(* The popup page's lists.  addKeyword() and addSubreddit() read the text  *)
(* field, trim and lower-case it (addSubreddit also puts r/ in front of a  *)
(* name that does not start with it), and push, sort and save when the     *)
(* entry is new; removeKeyword() and removeSubreddit() are bound to the    *)
(* remove button of a rendered entry: they filter the list and save.       *)

\* the UTF-16 code unit of a character
CharCode(c) ==
    CASE c = " " -> 32
      [] c = "/" -> 47
      [] c = "2" -> 50
      [] c = "B" -> 66
      [] c = "N" -> 78
      [] c = "R" -> 82
      [] c = "a" -> 97
      [] c = "b" -> 98
      [] c = "c" -> 99
      [] c = "e" -> 101
      [] c = "k" -> 107
      [] c = "n" -> 110
      [] c = "r" -> 114
      [] c = "s" -> 115
      [] c = "t" -> 116
      [] c = "w" -> 119

\* a comes before b in the order of Array.prototype.sort() called without a
\* comparator: by code units, a proper prefix first
StringLess(a, b) ==
    \E j \in 1..(Len(a) + 1) :
        /\ j <= Len(b)
        /\ \A m \in 1..(j - 1) : a[m] = b[m]
        /\ (j = Len(a) + 1 \/ CharCode(a[j]) < CharCode(b[j]))

\* Mutant: the list is left in the order of the pushes.
sortSkipped(list) == list

\* list.sort()
RECURSIVE sort(_)
sort(list) ==
    IF list = <<>> THEN <<>>
    ELSE LET x == Head(list)
             rest == sort(Tail(list))
         IN SelectSeq(rest, LAMBDA y : ~StringLess(x, y)) \o <<x>>
            \o SelectSeq(rest, LAMBDA y : StringLess(x, y))

\* String.prototype.trim
trim(s) ==
    LET kept == {j \in 1..Len(s) : s[j] # " "}
    IN IF kept = {} THEN <<>>
       ELSE SubSeq(s, CHOOSE j \in kept : \A m \in kept : j <= m,
                      CHOOSE j \in kept : \A m \in kept : j >= m)

includes(list, x) == \E j \in 1..Len(list) : list[j] = x

startsWith(s, prefix) ==
    Len(prefix) <= Len(s) /\ SubSeq(s, 1, Len(prefix)) = prefix

\* list.filter(k => k !== x)
without(list, x) == SelectSeq(list, LAMBDA k : k # x)

\* p: the popup page; the result: the page after the call.  Every call of
\* saveSettings() is one more change of the page.
addKeyword(p, input) ==
    LET keyword == toLowerCase(trim(input))
    IN IF keyword # <<>> /\ ~includes(p.settings.keywords, keyword)
       THEN saveSettingsIssued([p EXCEPT !.changes = @ + 1,
                                         !.settings.keywords = sort(Append(@, keyword))],
                               p.changes + 1)
       ELSE p

removeKeyword(p, keyword) ==
    saveSettingsIssued([p EXCEPT !.changes = @ + 1,
                                 !.settings.keywords = without(@, keyword)],
                       p.changes + 1)

addSubreddit(p, input) ==
    LET typed == toLowerCase(trim(input))
        subreddit == IF typed # <<>> /\ ~startsWith(typed, <<"r", "/">>)
                     THEN <<"r", "/">> \o typed
                     ELSE typed
    IN IF /\ subreddit # <<>>
          /\ subreddit # <<"r", "/">>
          /\ ~includes(p.settings.subreddits, subreddit)
       THEN saveSettingsIssued([p EXCEPT !.changes = @ + 1,
                                         !.settings.subreddits = sort(Append(@, subreddit))],
                               p.changes + 1)
       ELSE p

removeSubreddit(p, subreddit) ==
    saveSettingsIssued([p EXCEPT !.changes = @ + 1,
                                 !.settings.subreddits = without(@, subreddit)],
                       p.changes + 1)

PopupAddKeyword(input) ==
    /\ popupSettings.pc = "ready"
    /\ popupSettings.changes < MaxChanges
    /\ popupSettings' = addKeyword(popupSettings, input)
    /\ call' = [fn |-> "addKeyword", input |-> input]
    /\ UNCHANGED <<popup, createdBy, now, feed, toInsert, store, loadListener,
                   engineVars>>

PopupRemoveKeyword(keyword) ==
    /\ popupSettings.pc = "ready"
    /\ popupSettings.changes < MaxChanges
    /\ includes(popupSettings.settings.keywords, keyword)
    /\ popupSettings' = removeKeyword(popupSettings, keyword)
    /\ call' = [fn |-> "removeKeyword", input |-> keyword]
    /\ UNCHANGED <<popup, createdBy, now, feed, toInsert, store, loadListener,
                   engineVars>>

PopupAddSubreddit(input) ==
    /\ popupSettings.pc = "ready"
    /\ popupSettings.changes < MaxChanges
    /\ popupSettings' = addSubreddit(popupSettings, input)
    /\ call' = [fn |-> "addSubreddit", input |-> input]
    /\ UNCHANGED <<popup, createdBy, now, feed, toInsert, store, loadListener,
                   engineVars>>

PopupRemoveSubreddit(subreddit) ==
    /\ popupSettings.pc = "ready"
    /\ popupSettings.changes < MaxChanges
    /\ includes(popupSettings.settings.subreddits, subreddit)
    /\ popupSettings' = removeSubreddit(popupSettings, subreddit)
    /\ call' = [fn |-> "removeSubreddit", input |-> subreddit]
    /\ UNCHANGED <<popup, createdBy, now, feed, toInsert, store, loadListener,
                   engineVars>>

----------------------------------------------------------------------------
(* SpecLists: the popup is opened over a stored settings blob whose lists  *)
(* are duplicate-free and lower-case, in sorted order or not (the default  *)
(* lists are in the order of the lines of the bundled text files), or over *)
(* no blob; entries are then added and removed.                            *)

KeywordInputs ==
    {<<>>, <<" ">>, K_ban, K_BaN, K_news, <<" ", "c", "a", "k", "e", " ">>}

SubredditInputs ==
    {<<>>, <<" ">>, <<"r", "/">>, <<"R", "/", " ">>, S_rant, R_Rant, R_rant2,
     <<"r", "a", "n", "t">>, K_news}

StoredKeywords == {<<>>, <<K_ban, K_news>>, <<K_news, T_cats, K_ban>>}
StoredSubreddits == {<<S_rant>>, <<R_news, S_rant>>, <<S_rant, R_news>>}

InitLists ==
    /\ Blank(FALSE)
    /\ feed = {}
    /\ toInsert = {}
    /\ \/ store = [filterSettings |-> <<>>, filterCounters |-> <<>>]
       \/ \E ks \in StoredKeywords, ss \in StoredSubreddits :
             store = [filterSettings |-> <<[DefaultSettings EXCEPT !.keywords = ks,
                                                                    !.subreddits = ss]>>,
                      filterCounters |-> <<>>]

NextLists ==
    \/ PopupSettingsOpen
    \/ PopupLoadSettingsDone
    \/ \E input \in KeywordInputs : PopupAddKeyword(input)
    \/ \E j \in 1..Len(popupSettings.settings.keywords) :
          PopupRemoveKeyword(popupSettings.settings.keywords[j])
    \/ \E input \in SubredditInputs : PopupAddSubreddit(input)
    \/ \E j \in 1..Len(popupSettings.settings.subreddits) :
          PopupRemoveSubreddit(popupSettings.settings.subreddits[j])
    \/ PopupSaveSettingsDone

SpecLists == InitLists /\ [][NextLists]_vars
----------------------------------------------------------------------------
(* SpecHour: repeated lookups of one handle while the cache lifetime       *)
(* passes in halves; the post's article and its shreddit-post are both     *)
(* queued for the same author.                                             *)

InitHour ==
    /\ Blank(TRUE)
    /\ feed = {}
    /\ toInsert = {3}
    /\ store = [filterSettings |-> <<DefaultSettings>>, filterCounters |-> <<C_stored>>]

NextHour ==
    \/ \E i \in Inst : LoadSettingsDone(i)
    \/ \E i \in Inst : LoadCountersDone(i)
    \/ \E i \in Inst : TriggeredScan(i)
    \/ \E k \in PostIds : PageInsert(k)
    \/ \E b \in BatchIds : AgeChecksStart(b)
    \/ \E b \in BatchIds : FetchReject(b)
    \/ \E b \in BatchIds, ok \in BOOLEAN : FetchResolve(b, H_none, ok)
    \/ \E b \in BatchIds, body \in {B_young, B_old, B_none} : TextDone(b, body)
    \/ Tick(Ticks(CACHE_TTL_MS) \div 2, MaxHours * Ticks(CACHE_TTL_MS))

SpecHour == InitHour /\ [][NextHour]_vars

----------------------------------------------------------------------------
(* SpecHeaders: responses of every kind (OK or not, with all, some or none *)
(* of the rate-limit headers) received at different times.                 *)

NextHeaders ==
    \/ \E i \in Inst : LoadSettingsDone(i)
    \/ \E i \in Inst : LoadCountersDone(i)
    \/ \E i \in Inst : TriggeredScan(i)
    \/ \E k \in PostIds : PageInsert(k)
    \/ \E b \in BatchIds : AgeChecksStart(b)
    \/ \E b \in BatchIds : FetchReject(b)
    \/ \E b \in BatchIds, hdr \in HeaderSets, ok \in BOOLEAN : FetchResolve(b, hdr, ok)
    \/ \E b \in BatchIds, body \in {B_old, B_none} : TextDone(b, body)
    \/ Tick(Ticks(CACHE_TTL_MS) \div 2, MaxHours * Ticks(CACHE_TTL_MS))

SpecHeaders == InitHour /\ [][NextHeaders]_vars

\* SpecFloor: lookups for two authors, whose requests may be outstanding at
\* the same time, answered with a budget below or above the floor, while
\* time passes beyond the reset the response reported.
InitFloor ==
    /\ Blank(TRUE)
    /\ feed = {}
    /\ toInsert = {3, 4}
    /\ store = [filterSettings |-> <<DefaultSettings>>, filterCounters |-> <<C_stored>>]

NextFloor ==
    \/ \E i \in Inst : LoadSettingsDone(i)
    \/ \E i \in Inst : LoadCountersDone(i)
    \/ \E i \in Inst : TriggeredScan(i)
    \/ \E k \in PostIds : PageInsert(k)
    \/ \E b \in BatchIds : AgeChecksStart(b)
    \/ \E b \in BatchIds, hdr \in {H_low, H_some}, ok \in BOOLEAN : FetchResolve(b, hdr, ok)
    \/ \E b \in BatchIds : TextDone(b, B_old)
    \/ Tick(Ticks(CACHE_TTL_MS), MaxHours * Ticks(CACHE_TTL_MS))

SpecFloor == InitFloor /\ [][NextFloor]_vars
----------------------------------------------------------------------------
(* SpecMatch: findMatchingKeyword and isBlockedSubreddit called directly   *)
(* on texts, names and lists of the sets below.                            *)

Texts == {T_ban_news, T_cats, T_cake, T_banana, T_cplus_news, T_cplusb}
Keywords == {K_ban, K_BaN, K_news, K_cplus, K_cdot}
SubredditNames == {R_news, R_Rant, R_rant2, S_rant}
ListsOver(S) == UNION {[1..n -> S] : n \in 0..MaxListLen}

CallFindMatchingKeyword(text, keywords) ==
    /\ call' = [fn |-> "findMatchingKeyword", text |-> text, list |-> keywords,
                result |-> findMatchingKeyword(text, keywords)]
    /\ UNCHANGED <<popup, popupSettings, createdBy, now, feed, toInsert, store, loadListener, engineVars>>

CallIsBlockedSubreddit(subredditName, subreddits) ==
    /\ call' = [fn |-> "isBlockedSubreddit", text |-> subredditName,
                list |-> subreddits,
                result |-> isBlockedSubreddit(subredditName, subreddits)]
    /\ UNCHANGED <<popup, popupSettings, createdBy, now, feed, toInsert, store, loadListener, engineVars>>

InitMatch ==
    /\ Blank(FALSE)
    /\ feed = {}
    /\ toInsert = {}
    /\ store = [filterSettings |-> <<>>, filterCounters |-> <<>>]

NextMatch ==
    \/ \E text \in Texts, keywords \in ListsOver(Keywords) :
          CallFindMatchingKeyword(text, keywords)
    \/ \E name \in SubredditNames, subreddits \in ListsOver(SubredditNames) :
          CallIsBlockedSubreddit(name, subreddits)

SpecMatch == InitMatch /\ [][NextMatch]_vars

----------------------------------------------------------------------------
(* SpecResolver: the resolver's functions called directly, over inputs on  *)
(* both sides of each of their tests.  call holds the latest call: its     *)
(* arguments, the state it ran in, and what it returned and left behind.   *)

\* fetchUserProfile up to its first await: the path taken, the value
\* returned by an early return, and the state it leaves.
fetchUserProfileStart(username, cache, s, rate, pend, t) ==
    LET d == FetchDecision(username, cache, s, rate, pend, t)
    IN [path |-> d,
        returned |-> IF d = "cached" THEN cache[username].createdAt ELSE NullDate,
        cache |-> cache,
        rate |-> rate,
        pend |-> IF d = "network" THEN pend \cup {username} ELSE pend]

\* the time of the calls, and cache entries of every age around the lifetime
CallTime == Ticks(CACHE_TTL_MS) + 1
EntryFetchedAt(t) == [present |-> TRUE, createdAt |-> DateAt(YoungTime), fetchedAt |-> t]
CacheEntries ==
    {NoEntry} \cup {EntryFetchedAt(CallTime - age) :
                      age \in {0, Ticks(CACHE_TTL_MS) - 1, Ticks(CACHE_TTL_MS),
                               Ticks(CACHE_TTL_MS) + 1}}
Budgets == {[NewRateLimit(0) EXCEPT !.remaining = r] : r \in {RATE_FLOOR, RATE_FLOOR + 1}}

CallFetchUserProfile(username, entry, s, rate, pend) ==
    /\ call' = [fn |-> "fetchUserProfile",
                username |-> username,
                cache |-> [EmptyCache EXCEPT ![username] = entry],
                settings |-> s, rate |-> rate, pend |-> pend, t |-> CallTime,
                out |-> fetchUserProfileStart(username,
                                              [EmptyCache EXCEPT ![username] = entry],
                                              s, rate, pend, CallTime)]
    /\ UNCHANGED <<popup, popupSettings, createdBy, now, feed, toInsert, store, loadListener, engineVars>>

\* profile pages: each of the two <time> elements absent, present without a
\* datetime, with an unparseable one, or with a timestamp
TimeElements ==
    {[el |-> FALSE, dt |-> NoAttr]} \cup
    {[el |-> TRUE, dt |-> a] : a \in {NoAttr, BadAttr, TimeAttr(YoungTime), TimeAttr(OldTime)}}
Bodies ==
    {[primaryEl |-> p.el, primaryDt |-> p.dt, fallbackEl |-> f.el, fallbackDt |-> f.dt] :
        p \in TimeElements, f \in TimeElements}

CallParseAccountCreationDate(body) ==
    /\ call' = [fn |-> "parseAccountCreationDate", body |-> body,
                out |-> parseAccountCreationDate(body)]
    /\ UNCHANGED <<popup, popupSettings, createdBy, now, feed, toInsert, store, loadListener, engineVars>>

\* minimum ages, and creation dates that make the account one tick younger
\* than, exactly as old as and one tick older than each of them at the time
\* of the call, one in the future, and an Invalid Date
MinAges == {0, 1, DEFAULT_MIN_AGE}
AgeCallTime == 2 * DEFAULT_MIN_AGE * TicksPerMonth
CreationDates ==
    {InvalidDate, DateAt(AgeCallTime + 1)} \cup
    {DateAt(AgeCallTime - (m * TicksPerMonth + d)) : m \in MinAges, d \in {-1, 0, 1}}

CallIsAccountTooYoung(createdAt, minAccountAge) ==
    /\ call' = [fn |-> "isAccountTooYoung", createdAt |-> createdAt,
                minAccountAge |-> minAccountAge, t |-> AgeCallTime,
                out |-> isAccountTooYoung(createdAt, AgeCallTime, minAccountAge)]
    /\ UNCHANGED <<popup, popupSettings, createdBy, now, feed, toInsert, store, loadListener, engineVars>>

NextResolver ==
    \/ \E username \in Handles, entry \in CacheEntries, s \in {DefaultSettings, S_paused},
          rate \in Budgets, pend \in SUBSET {"cy"} :
             CallFetchUserProfile(username, entry, s, rate, pend)
    \/ \E body \in Bodies : CallParseAccountCreationDate(body)
    \/ \E createdAt \in CreationDates, minAccountAge \in MinAges :
          CallIsAccountTooYoung(createdAt, minAccountAge)

SpecResolver == InitMatch /\ [][NextResolver]_vars

----------------------------------------------------------------------------
(* Notions the claims are stated in.                                       *)

\* keyword occurs in text, ignoring case, with no word character next to it
\* on either side
ContainsWholeWord(text, keyword) ==
    LET t == toLowerCase(text)
        k == toLowerCase(keyword)
        n == Len(k)
    IN /\ n > 0
       /\ \E start \in 1..(Len(t) - n + 1) :
             /\ SubSeq(t, start, start + n - 1) = k
             /\ (start = 1 \/ ~IsWordChar(t[start - 1]))
             /\ (start + n > Len(t) \/ ~IsWordChar(t[start + n]))

\* the title a feed item carries: an article's aria-label, a shreddit-post's
\* own post-title
NodeTitle(node) ==
    IF node[2] = "ARTICLE" THEN Posts[node[1]].aria ELSE Posts[node[1]].postTitle

NodeSubreddit(node) == IF Posts[node[1]].shreddit THEN Posts[node[1]].sub ELSE <<>>

MatchesRules(node, s) ==
    \/ \E j \in 1..Len(s.keywords) : ContainsWholeWord(NodeTitle(node), s.keywords[j])
    \/ \E j \in 1..Len(s.subreddits) :
          toLowerCase(s.subreddits[j]) = toLowerCase(NodeSubreddit(node))

\* a step in which instance i runs removePosts
ScanReturns(i) ==
    \/ TriggeredScan(i)
    \/ DeferredScan(i)
    \/ ipc[i] # "done" /\ ipc'[i] = "done" /\ settings[i].enabled

\* the letters a and b are the same up to case
SameLetter(a, b) ==
    \/ a = b
    \/ {a, b} \in {{"B", "b"}, {"N", "n"}, {"R", "r"}}

EqualsIgnoringCase(x, y) ==
    /\ Len(x) = Len(y)
    /\ \A j \in 1..Len(x) : SameLetter(x[j], y[j])

\* post k has a node that matches a keyword or subreddit rule of s
PostMatchesRules(k, s) ==
    \E j \in 1..Len(PostNodes(k)) : MatchesRules(PostNodes(k)[j], s)

\* the cache of instance i holds for post k's author a creation date less
\* than the instance's minimum number of months before t
KnownYoung(i, k, cache, t) ==
    LET entry == cache[i][Posts[k].author]
    IN /\ Posts[k].author \in Handles
       /\ entry.present
       /\ entry.createdAt.kind = "date"
       /\ t - entry.createdAt.t < settings[i].minAccountAge * TicksPerMonth

\* a step of processAgeChecks invocation b
BatchStep(b) == batches[b].pc # "free" /\ batches'[b] # batches[b]

\* the post whose lookup settles in a step of b with a date, if any
SettledPost(b) ==
    IF batches[b].pc = "text" THEN {Head(batches[b].posts)[1]} ELSE {}

\* a step in which the request batch b awaits ends without a date: fetch
\* or text() rejects, the response is not OK, or no date is parsed
LookupFails(b) ==
    /\ batches[b].pc \in {"fetch", "text"}
    /\ batches'[b].posts # batches[b].posts
    /\ LET h == AuthorOf(Head(batches[b].posts))
       IN userAgeCache'[batches[b].inst][h] = userAgeCache[batches[b].inst][h]

\* a step in which batch b issues a network request
Issues(b) ==
    /\ batches'[b].pc = "fetch"
    /\ batches[b].pc # "fetch" \/ batches'[b].posts # batches[b].posts

RECURSIVE SumOver(_, _, _)
SumOver(c, field, i) ==
    IF i = 0 THEN 0 ELSE c[i][field] + SumOver(c, field, i - 1)

\* the requests of instance i for handle h that are outstanding
Outstanding(i, h) ==
    {b \in BatchIds : /\ batches[b].inst = i
                      /\ batches[b].pc \in {"fetch", "text"}
                      /\ AuthorOf(Head(batches[b].posts)) = h}

\* what the content script holds in store.filterCounters as all-time total
PersistedTotal ==
    IF store.filterCounters = <<>> THEN 0 ELSE store.filterCounters[1].totalRemoved

\* what the content script answers to requestCounters
ReportedTotal == IF filter = 0 THEN 0 ELSE counters[filter].totalRemoved

\* a step taken by a timer callback or an age check of instance i
CallbackOf(i) ==
    \/ DebounceFire(i) \/ PeriodicPoll(i) \/ DeferredScan(i)
    \/ \E b \in BatchIds : batches[b].inst = i /\ batches'[b] # batches[b]

----------------------------------------------------------------------------
(* The claims.                                                             *)

\* C1: when pass 1 of a scan returns, no item the feed selector matches is
\* left in the feed whose title (aria-label of an article, post-title of a
\* shreddit-post) holds a configured keyword as a whole word or whose
\* subreddit is blocked.
C1_NoMatchingItemAfterPass1 ==
    [][\A i \in Inst :
          ScanReturns(i) =>
              \A j \in 1..Len(querySelectorAll(feed')) :
                  ~MatchesRules(querySelectorAll(feed')[j], settings[i])]_vars

\* C2: in every step of scans and age checks (no load in it), totalRemoved
\* and dailyRemoved each grow by the number of posts the step takes out of
\* the feed.
C2_CountersGrowByPostsRemoved ==
    [][ipc' = ipc =>
          /\ SumOver(counters', "totalRemoved", MaxInst)
               - SumOver(counters, "totalRemoved", MaxInst) = Cardinality(feed \ feed')
          /\ SumOver(counters', "dailyRemoved", MaxInst)
               - SumOver(counters, "dailyRemoved", MaxInst) = Cardinality(feed \ feed')]_vars

\* C6: whenever a batch issues a network request, the known remaining
\* budget of its instance is above the floor.
C6_NoRequestAtOrBelowFloor ==
    [][\A b \in BatchIds :
          Issues(b) => rateLimitInfo'[batches'[b].inst].remaining > RATE_FLOOR]_vars

\* C6 witness: a lookup ran with the known budget at or below the floor (a
\* response had lowered it) and was refused on the floor check.
C6_Witness ==
    /\ rateLimitInfo[1].remaining <= RATE_FLOOR
    /\ <<"cy", "floor">> \in lookups
    /\ lastRequestAt[1]["cy"] >= 0

\* C7: per instance and handle at most one request is outstanding, and
\* while one is outstanding the handle stays in the in-flight set.
C7_OneRequestPerHandle ==
    \A i \in Inst, h \in Handles :
        /\ Cardinality(Outstanding(i, h)) <= 1
        /\ Outstanding(i, h) # {} => h \in pendingRequests[i]

\* C7 witness: a lookup for a handle was refused as in flight while the
\* request for that handle is still outstanding and still marked.
C7_Witness ==
    /\ lookups = {<<"cy", "inflight">>}
    /\ Outstanding(1, "cy") # {}
    /\ "cy" \in pendingRequests[1]

\* C3: the all-time total never goes down, neither the persisted one nor
\* the one the page reports.
C3_TotalNeverDecreases ==
    [][/\ PersistedTotal' >= PersistedTotal
       /\ ReportedTotal' >= ReportedTotal]_vars

\* C8: a timer callback or an age check of a destroyed instance (its
\* observer disconnected) removes no post, increments no counter and does
\* not write the counters blob.
C8_NothingAfterDestroy ==
    [][\A i \in destroyed :
          (~observer[i] /\ CallbackOf(i))
                        => /\ feed' = feed
                           /\ counters'[i] = counters[i]
                           /\ store'.filterCounters = store.filterCounters]_vars

\* C9: any instance whose observer is connected or whose periodic timer is
\* active is the one the module-level filter refers to.
C9_OnlyFilterIsLive ==
    \A i \in Inst : (observer[i] \/ periodicTimer[i] # 0) => i = filter

\* C4: whenever an instance increments its counters or the counters blob is
\* written, lastResetDate is the current date; an increment on a date other
\* than lastResetDate counts dailyRemoved from 0.
C4_ResetOnDateChange ==
    [][/\ \A i \in Inst :
            (ipc'[i] = ipc[i] /\ counters'[i].totalRemoved > counters[i].totalRemoved)
            => /\ counters'[i].lastResetDate = Today(now')
               /\ counters[i].lastResetDate # Today(now)
                  => counters'[i].dailyRemoved
                       = counters'[i].totalRemoved - counters[i].totalRemoved
       /\ store'.filterCounters # store.filterCounters
          => store'.filterCounters[1].lastResetDate = Today(now')]_vars

C10_BatchesCollapse ==
    [][\A i \in Inst :
          /\ ((\E k \in PostIds : PageInsert(k)) /\ observer[i])
             => debounce'[i] = <<[due |-> now + Ticks(DEBOUNCE_MS), shouldCheck |-> TRUE]>>
          /\ (DebounceFire(i) /\ deferred'[i] > deferred[i])
             => /\ debounce'[i] = <<>>
                /\ now >= Head(debounce[i]).due]_vars

\* C10 witness: both posts were inserted after the initial scan, the second
\* one 50 ms after time 0 and so less than 100 ms after the first; one
\* timer is pending, due 100 ms after the second batch, and no scan has
\* run since.
C10_Witness ==
    /\ ipc[1] = "done"
    /\ feed = {1, 2}
    /\ now = 1
    /\ deferred[1] = 0
    /\ debounce[1] = <<[due |-> 1 + Ticks(DEBOUNCE_MS), shouldCheck |-> TRUE]>>

\* C11: an initialised instance whose apiPaused is true has no item queued
\* for pass 2 and has issued no request; a scan of it keeps every post that
\* matches no keyword and no blocked subreddit, and a scan over a feed of
\* such posts leaves its counters as they were.
C11_PausedSkipsAgeChecks ==
    [][\A i \in Inst :
          (settings'[i].apiPaused /\ ipc'[i] = "done") =>
              /\ \A b \in BatchIds : batches'[b].inst # i
              /\ \A h \in Handles : lastRequestAt'[i][h] < 0
              /\ ScanReturns(i) =>
                    \A k \in feed : ~PostMatchesRules(k, settings'[i]) => k \in feed'
              /\ (TriggeredScan(i) /\ \A k \in feed : ~PostMatchesRules(k, settings[i]))
                    => counters'[i] = counters[i]]_vars

\* C11 witness: the paused instance ran its initial scan over the post of
\* author cy (two nodes counted by setupPeriodicCheck), which matches no
\* rule: the post is in the feed, the counters are the loaded ones, nothing
\* is queued.
C11_Witness ==
    /\ settings[1].apiPaused
    /\ ipc[1] = "done"
    /\ feed = {3}
    /\ lastPostCount[1] = 2
    /\ counters[1] = C_stored
    /\ \A b \in BatchIds : batches[b] = FreeBatch

\* C12 as stated: in a step of a batch taken with the known budget at or
\* below the floor, every lookup returns unavailable and no post is
\* removed on its account.
C12_AtFloorEveryCheckUnavailable ==
    [][\A b \in BatchIds :
          (BatchStep(b) /\ rateLimitInfo'[batches[b].inst].remaining <= RATE_FLOOR) =>
              /\ \A l \in lookups' : l[2] \in {"paused", "floor", "inflight"}
              /\ (feed \ feed') \subseteq SettledPost(b)]_vars

\* C12 amended: with the budget at or below the floor, a lookup for an
\* author without a live cache entry returns unavailable without a request
\* and its post is kept; a lookup for an author with a live entry returns
\* the cached date, and only such a post of a too young account is removed.
C12_AtFloorOnlyCacheAnswers ==
    [][\A b \in BatchIds :
          (BatchStep(b) /\ rateLimitInfo'[batches[b].inst].remaining <= RATE_FLOOR) =>
              LET i == batches[b].inst
                  live(h) == CacheLive(userAgeCache'[i], h, now)
              IN /\ \A l \in lookups' :
                       IF live(l[1]) THEN l[2] = "cached"
                       ELSE l[2] \in {"paused", "floor", "inflight"}
                 /\ \A k \in (feed \ feed') \ SettledPost(b) :
                       /\ live(Posts[k].author)
                       /\ isAccountTooYoung(userAgeCache'[i][Posts[k].author].createdAt,
                                            now, settings[i].minAccountAge)]_vars

\* C12 witness: the age check of the queued post of author bo ran with the
\* budget at 15 and nothing cached, returned on the floor check, and the
\* post is still in the feed.
C12_Witness ==
    /\ rateLimitInfo[1].remaining <= RATE_FLOOR
    /\ lookups = {<<"bo", "floor">>}
    /\ ~userAgeCache[1]["bo"].present
    /\ 4 \in feed

\* C13: every post a step takes out of the feed is removed by a scan of an
\* instance whose keyword or subreddit rules it matches, or by an age check
\* of an instance that has obtained for its author a creation date younger
\* than the instance's minimum.
C13_RemovedOnlyOnACriterion ==
    [][feed \ feed' # {} =>
          \/ \E i \in Inst :
                /\ ScanReturns(i)
                /\ \A k \in feed \ feed' : PostMatchesRules(k, settings[i])
          \/ \E b \in BatchIds :
                /\ BatchStep(b)
                /\ \A k \in feed \ feed' :
                      KnownYoung(batches[b].inst, k, userAgeCache', now)]_vars

\* C13 witness: the lookup for the author of a post that matches no rule
\* returned a date 24 months back; the age checks are over and the post is
\* in the feed.
C13_Witness ==
    /\ userAgeCache[1]["cy"].present
    /\ userAgeCache[1]["cy"].createdAt = DateAt(OldTime)
    /\ 3 \in feed
    /\ \A b \in BatchIds : batches[b] = FreeBatch

\* C14: findMatchingKeyword returns the first keyword of the list that
\* occurs in the text as a whole word, ignoring case, and none when no
\* keyword does.
C14_FirstWholeWordKeyword ==
    call.fn = "findMatchingKeyword" =>
        LET hits == {j \in 1..Len(call.list) : ContainsWholeWord(call.text, call.list[j])}
        IN IF hits = {} THEN call.result = <<>>
           ELSE call.result = call.list[CHOOSE j \in hits : \A m \in hits : j <= m]

\* C15: isBlockedSubreddit is true exactly when the name equals an entry of
\* the list in full, ignoring case.
C15_BlockedIffEqualIgnoringCase ==
    call.fn = "isBlockedSubreddit" =>
        (call.result = TRUE
           <=> \E j \in 1..Len(call.list) : EqualsIgnoringCase(call.list[j], call.text))

\* C15 witness: r/rant2 was tested against the list holding r/rant only,
\* and is not blocked.
C15_Witness ==
    call = [fn |-> "isBlockedSubreddit", text |-> R_rant2, list |-> <<S_rant>>,
            result |-> FALSE]

\* C16: when the lookup a batch awaits ends without a date, the post stays
\* in the feed, the counters stay as they are unless another post is
\* removed, and the batch does not go on to issue another request for the
\* same handle.
C16_FailedLookupNotRetried ==
    [][\A b \in BatchIds :
          LookupFails(b) =>
              LET i == batches[b].inst
                  node == Head(batches[b].posts)
              IN /\ node[1] \in feed => node[1] \in feed'
                 /\ feed' = feed => counters'[i] = counters[i]
                 /\ ~(Issues(b) /\ AuthorOf(Head(batches'[b].posts)) = AuthorOf(node))]_vars

\* C17: init() with no settings blob keeps the default settings and what it
\* writes under the settings key is the defaults; with no counters blob it
\* keeps zeroed counters dated today and what it writes is those; a blob
\* that lacks fields is completed from the defaults (a failed read leaves
\* the defaults whole); and however the reads and writes went, when init()
\* completes with the filter enabled the initial scan has run (the posts
\* pass 1 removes are out of the feed), the observer is connected and the
\* periodic timer is set.
C17_InitToleratesAbsence ==
    [][\A i \in Inst :
          /\ (ipc[i] = "loadSettings" /\ ipc'[i] = "saveSettings") =>
                /\ store.filterSettings = <<>>
                /\ settings'[i] = DefaultSettings
                /\ store' # store =>
                      store' = [store EXCEPT !.filterSettings = <<DefaultSettings>>]
          /\ (ipc[i] = "loadSettings" /\ ipc'[i] = "saveSettingsInFlight") =>
                /\ store.filterSettings = <<>>
                /\ settings'[i] = DefaultSettings
                /\ store' = store
          /\ (ipc[i] = "saveSettingsInFlight" /\ ipc'[i] # ipc[i]) =>
                /\ settings'[i] = DefaultSettings
                /\ store' = [store EXCEPT !.filterSettings = <<DefaultSettings>>]
          /\ (ipc[i] = "loadSettings" /\ ipc'[i] = "loadCounters") =>
                \/ settings'[i] = DefaultSettings
                \/ /\ store.filterSettings # <<>>
                   /\ DOMAIN settings'[i] = DOMAIN DefaultSettings
                   /\ \A f \in DOMAIN DefaultSettings :
                         settings'[i][f] = IF f \in DOMAIN store.filterSettings[1]
                                           THEN store.filterSettings[1][f]
                                           ELSE DefaultSettings[f]
          /\ (ipc[i] = "loadCounters" /\ store.filterCounters = <<>>) =>
                /\ ipc'[i] = "saveCounters" =>
                      /\ counters'[i] = NewCounters(now)
                      /\ store' # store =>
                            store' = [store EXCEPT !.filterCounters = <<NewCounters(now)>>]
                /\ ipc'[i] = "done" => counters'[i].lastResetDate = Today(now)
          /\ (ipc[i] \in {"loadCounters", "saveCounters"} /\ ipc'[i] = "done") =>
                /\ DOMAIN counters'[i] = DOMAIN NewCounters(now)
                /\ settings[i].enabled =>
                      /\ feed' = feed \ Pass1(querySelectorAll(feed), settings[i],
                                              rateLimitInfo[i].remaining).detached
                      /\ observer'[i]
                      /\ periodicTimer'[i] = now + Ticks(POLL_MS)]_vars

\* the counters blob was absent: init() is done, the watcher is connected, and
\* the store holds the default settings and counters dated today
C17_Witness ==
    /\ ipc[1] = "done"
    /\ observer[1]
    /\ store.filterSettings = <<DefaultSettings>>
    /\ store.filterCounters # <<>>
    /\ DOMAIN store.filterCounters[1] = DOMAIN NewCounters(now)
    /\ store.filterCounters[1].lastResetDate = Today(now)
    /\ store.filterCounters[1].totalRemoved < 5

\* a blob lacking fields was completed from the defaults
C17_WitnessPartial ==
    /\ ipc[1] = "done"
    /\ store.filterSettings = <<S_partial>>
    /\ settings[1] = [DefaultSettings EXCEPT !.apiPaused = TRUE]
    /\ store.filterCounters = <<C_partial>>
    /\ counters[1].lastResetDate = Today(now)
    /\ counters[1].totalRemoved >= 5

\* C18: in every step of a scan or of age checks in which an instance
\* removes posts, whether the writes of the counters blob succeed or fail:
\* the step completes, the in-memory counters grow by the removals made,
\* the posts are out of the feed, the rest of the scan is done (pass 1 has
\* gone through the whole snapshot; a batch of age checks has moved on to
\* its next network lookup or has ended), and the counters blob is either
\* as it was or the in-memory counters as of one of the step's removals,
\* every earlier increment included.
C18_SaveFailureTolerated ==
    [][\A i \in Inst :
          (ipc'[i] = ipc[i] /\ counters'[i] # counters[i]) =>
              LET n == counters'[i].totalRemoved - counters[i].totalRemoved
              IN /\ n >= 1
                 /\ counters'[i] = Inc(counters[i], n)
                 /\ (feed \ feed') \cap feed' = {}
                 /\ \/ store'.filterCounters = store.filterCounters
                    \/ \E j \in 1..n : store'.filterCounters = <<Inc(counters[i], j)>>
                 /\ store'.filterSettings = store.filterSettings
                 /\ \/ /\ \A b \in BatchIds : BatchStep(b) => batches[b].inst # i
                       /\ feed' = feed \ Pass1(querySelectorAll(feed), settings[i],
                                               rateLimitInfo[i].remaining).detached
                    \/ \E b \in BatchIds :
                          /\ BatchStep(b)
                          /\ batches[b].inst = i
                          /\ \/ batches'[b].pc = "free"
                             \/ /\ batches'[b].pc = "fetch"
                                /\ Len(batches'[b].posts) < Len(batches[b].posts)]_vars

\* C18 witness: a write of the counters blob failed during a removal: the
\* post is out of the feed, the in-memory total is ahead of the stored one.
C18_Witness ==
    /\ ipc[1] = "done"
    /\ store.filterCounters = <<C_stored>>
    /\ counters[1].totalRemoved > C_stored.totalRemoved
    /\ toInsert \cup feed # {1, 4}
    /\ toInsert \cup feed # {2, 5}
    /\ toInsert \cup feed # {3}

\* a step of the popup page
PopupStep == popup' # popup

\* C19: no step of the popup changes the counters blob.
C19_PopupNeverWritesCounters ==
    [][PopupStep => store'.filterCounters = store.filterCounters]_vars

\* C19, the consequence: no step of the popup lowers the stored all-time
\* total.
C19_PopupNeverLowersTotal ==
    [][PopupStep => PersistedTotal' >= PersistedTotal]_vars

\* the posts named in the queue of batch b
QueuedPosts(b) == {batches[b].posts[j][1] : j \in 1..Len(batches[b].posts)}

\* C20: the step in which a scan hands its queue to pass 2 has made all the
\* pass-1 removals and increments of that scan (every post pass 1 removes is
\* out of the feed, the counters have grown by its removals) and has begun
\* no age check: the batch waits for its timer, no lookup has run, no
\* request is issued.  The steps of the batch that follow remove only posts
\* of its queue, none of which pass 1 removes.
C20_Pass1BeforePass2 ==
    [][\A b \in BatchIds :
          /\ (batches[b].pc = "free" /\ batches'[b].pc # "free") =>
                LET i == batches'[b].inst
                    r == Pass1(querySelectorAll(feed), settings[i],
                               rateLimitInfo[i].remaining)
                IN /\ batches'[b].pc = "timer"
                   /\ batches'[b].posts = r.queue
                   /\ feed' = feed \ r.detached
                   /\ QueuedPosts(b)' \cap r.detached = {}
                   /\ ipc'[i] = ipc[i] => counters'[i] = Inc(counters[i], r.removeCalls)
                   /\ lookups' = lookups
                   /\ lastRequestAt' = lastRequestAt
                   /\ pendingRequests' = pendingRequests
                   /\ userAgeCache' = userAgeCache
          /\ BatchStep(b) =>
                /\ feed \ feed' \subseteq QueuedPosts(b)
                /\ batches[b].pc = "timer" \/ batches'[b].pc # "timer"]_vars

\* C20 witness: pass 1 of a scan has removed and counted post 1, post 4 is
\* queued, and the age checks wait for their timer.
C20_Witness ==
    /\ feed = {4}
    /\ toInsert = {}
    /\ counters[1].totalRemoved \notin {0, C_stored.totalRemoved}
    /\ \E b \in BatchIds : /\ batches[b].pc = "timer"
                            /\ batches[b].posts = <<<<4, "SHREDDIT-POST">>>>
    /\ lookups = {}
    /\ \A h \in Handles : lastRequestAt[1][h] = 0 - 1

\* C21: per instance, a handle is in the in-flight set exactly while a
\* request for it is outstanding; a step of a batch takes out of the set the
\* handle whose request settles in it (with a date, with null or with a
\* caught error), puts in the handle whose request it issues, and changes
\* nothing else, whatever early returns its other lookups took.
C21_InFlightExactlyWhileOutstanding ==
    [][/\ \A i \in Inst, h \in Handles :
             (h \in pendingRequests[i] <=> Outstanding(i, h) # {})'
       /\ \A b \in BatchIds :
             BatchStep(b) =>
                LET i == batches[b].inst
                    settles == /\ batches[b].pc \in {"fetch", "text"}
                               /\ batches'[b].posts # batches[b].posts
                    settled == IF settles THEN {AuthorOf(Head(batches[b].posts))} ELSE {}
                    issued == IF Issues(b) THEN {AuthorOf(Head(batches'[b].posts))} ELSE {}
                IN /\ pendingRequests'[i] = (pendingRequests[i] \ settled) \cup issued
                   /\ \A j \in Inst \ {i} : pendingRequests'[j] = pendingRequests[j]
       /\ (\A b \in BatchIds : ~BatchStep(b)) => pendingRequests' = pendingRequests]_vars

\* C21 witness: the request for cy has settled and its marker is gone, and
\* the next lookup for cy returned early from the cache, adding no marker.
C21_Witness ==
    /\ lastRequestAt[1]["cy"] >= 0
    /\ lookups = {<<"cy", "cached">>}
    /\ pendingRequests[1] = {}
    /\ Outstanding(1, "cy") = {}

\* C22: whenever a batch that adds a feed item has reached the observer of
\* an instance, that instance eventually runs a scan.
C22_ScanFollowsFeedItemBatch ==
    \A i \in Inst : awaiting[i] ~> ~awaiting[i]

\* C23: a poll schedules a scan exactly when it counts more feed items than
\* the poll before it counted (the first poll: than setupPeriodicCheck
\* counted).
C23_PollSchedulesIffCountGrew ==
    [][\A i \in Inst :
          PeriodicPoll(i) =>
              (deferred'[i] > deferred[i]
                  <=> Len(querySelectorAll(feed)) > polledCount[i])]_vars

\* node is queued in batch b behind the item whose lookup is under way
QueuedBehind(b, node) ==
    /\ batches[b].pc \in {"fetch", "text"}
    /\ \E j \in 2..Len(batches[b].posts) : batches[b].posts[j] = node

\* C24: an item queued in a batch behind the item whose lookup is under
\* way is eventually reached by the loop, whether that lookup fails or
\* never completes.
C24_QueuedItemsEventuallyChecked ==
    \A b \in BatchIds, k \in PostIds, tagName \in {"ARTICLE", "SHREDDIT-POST"} :
        QueuedBehind(b, <<k, tagName>>) ~> ~QueuedBehind(b, <<k, tagName>>)

\* C25: a fetchUserProfile call for a handle whose cache entry was fetched
\* less than an hour before returns the entry's creation date on the cache
\* path, for every pause flag, budget and in-flight set, and leaves the
\* rate-limit state, the cache and the in-flight set as they were; with an
\* entry an hour old or older, or none, it does not take the cache path.
C25_LiveEntryAnswersAlone ==
    call.fn = "fetchUserProfile" =>
        LET e == call.cache[call.username]
        IN IF e.present /\ (call.t - e.fetchedAt) * 50 < CACHE_TTL_MS
           THEN /\ call.out.path = "cached"
                /\ call.out.returned = e.createdAt
                /\ call.out.rate = call.rate
                /\ call.out.cache = call.cache
                /\ call.out.pend = call.pend
           ELSE call.out.path # "cached"

\* C25 witness: an entry one tick short of an hour old answered a call made
\* with the API paused, the budget at the floor and the handle in flight.
C25_Witness ==
    /\ call.fn = "fetchUserProfile"
    /\ call.cache[call.username].fetchedAt = call.t - (Ticks(CACHE_TTL_MS) - 1)
    /\ call.cache[call.username].present
    /\ call.settings.apiPaused
    /\ call.rate.remaining = RATE_FLOOR
    /\ call.username \in call.pend
    /\ call.out.path = "cached"
    /\ call.out.returned = DateAt(YoungTime)

\* C26: the age cache of an instance changes only in a step in which the
\* body of an OK response for the handle has been read by a batch of that
\* instance, and only for that handle; the entry then holds a creation date
\* (a point in time) and the time of the step as fetchedAt.
C26_CacheWrittenOnlyWithADate ==
    [][\A i \in Inst, h \in Handles :
          userAgeCache'[i][h] # userAgeCache[i][h] =>
              /\ \E b \in BatchIds : /\ batches[b].pc = "text"
                                     /\ batches[b].inst = i
                                     /\ AuthorOf(Head(batches[b].posts)) = h
                                     /\ BatchStep(b)
              /\ userAgeCache'[i][h].present
              /\ userAgeCache'[i][h].createdAt.kind = "date"
              /\ userAgeCache'[i][h].fetchedAt = now]_vars


YieldsDate(el, dt) == el /\ dt.kind = "ts"

\* C28: parseAccountCreationDate returns null exactly when neither the
\* primary nor the fallback element yields a date, and returns the fallback's
\* date whenever the primary yields none and the fallback yields one.
C28_FallbackTriedWheneverPrimaryFails ==
    call.fn = "parseAccountCreationDate" =>
        LET primary == YieldsDate(call.body.primaryEl, call.body.primaryDt)
            fallback == YieldsDate(call.body.fallbackEl, call.body.fallbackDt)
        IN /\ (call.out = NullDate) <=> (~primary /\ ~fallback)
           /\ (~primary /\ fallback) => call.out = DateAt(call.body.fallbackDt.t)
           /\ primary => call.out = DateAt(call.body.primaryDt.t)


\* C29: isAccountTooYoung answers true exactly when the account's age,
\* now - createdAt, is less than minAccountAge months of 2,630,016 seconds;
\* an age equal to the minimum is not too young, and with a minimum of 0 no
\* account created at or before now is too young.
C29_TooYoungIffBelowMinimum ==
    call.fn = "isAccountTooYoung" =>
        /\ call.createdAt.kind = "date" =>
              (call.out <=> (call.t - call.createdAt.t) <
                               call.minAccountAge * 2630016 * Ticks(1000))
        /\ call.createdAt.kind # "date" => ~call.out
        /\ (call.createdAt.kind = "date" /\ call.minAccountAge = 0
               /\ call.createdAt.t <= call.t) => ~call.out

\* C29 witness: an account exactly twelve months old, checked against a
\* minimum of twelve months, was found not too young.
C29_Witness ==
    /\ call.fn = "isAccountTooYoung"
    /\ call.minAccountAge = DEFAULT_MIN_AGE
    /\ call.createdAt = DateAt(call.t - DEFAULT_MIN_AGE * 2630016 * Ticks(1000))
    /\ ~call.out


\* the batches set up in the step, and the queue handed to pass 2 in it
NewBatches == {b \in BatchIds : batches[b].pc = "free" /\ batches'[b].pc # "free"}
NewQueue == IF NewBatches = {} THEN <<>> ELSE batches'[CHOOSE b \in NewBatches : TRUE].posts

\* C30: the queue a scan of instance i hands to pass 2 holds, in document
\* order, exactly the items of its snapshot whose post the scan left in the
\* feed and that have a shreddit-post with a non-empty author, provided the
\* API is not paused and the known budget is above the floor, and is empty
\* otherwise; every lookup of a batch step is for the author of an item of
\* that batch's queue.
C30_QueuedIffKeptAndCheckable ==
    [][/\ \A i \in Inst :
             ScanReturns(i) =>
                LET kept == feed'
                    open == ~settings'[i].apiPaused /\ rateLimitInfo[i].remaining > RATE_FLOOR
                    Checkable(n) == /\ n[1] \in kept
                                    /\ HasShredditPost(n)
                                    /\ Posts[n[1]].author # ""
                                    /\ open
                IN /\ NewQueue = SelectSeq(querySelectorAll(feed), Checkable)
                   /\ \A j \in 1..Len(NewQueue) : NewQueue[j][1] \notin feed \ feed'
       /\ \A b \in BatchIds :
             BatchStep(b) =>
                \A l \in lookups' :
                   \E j \in 1..Len(batches[b].posts) : AuthorOf(batches[b].posts[j]) = l[1]]_vars

\* C30 witness: a scan of an instance that is not paused and has budget ran
\* over the r/Rant post and the post without author: the first is removed,
\* the second stays, and nothing is queued.
C30_Witness ==
    /\ ipc[1] = "done"
    /\ ~settings[1].apiPaused
    /\ rateLimitInfo[1].remaining > RATE_FLOOR
    /\ toInsert = {}
    /\ feed = {5}
    /\ counters[1].totalRemoved > C_stored.totalRemoved
    /\ \A b \in BatchIds : batches[b] = FreeBatch


\* C31: the push that answers a requestCounters message carries the
\* counters of the instance the module-level filter refers to, and its
\* totalRemoved is not below the total persisted at that moment.
C31_PushNotBelowPersisted ==
    [][RequestCounters =>
          /\ call'.fn = "countersUpdated"
          /\ filter # 0 => call'.counters = counters[filter]
          /\ call'.counters.totalRemoved >= PersistedTotal]_vars


\* the place of a settings blob in the order of the popup's changes
ChangeOf(blob) == blob.minAccountAge - DEFAULT_MIN_AGE

\* C32: a settingsUpdated message is sent only in the step in which the
\* popup's write has stored its blob under the key the content script
\* reads, and when the instance a message constructed has its settings read
\* served, the stored blob is that of the change that sent the message or of
\* a later one.
C32_ChangeReachesEngine ==
    [][/\ Len(popupSettings'.sent) > Len(popupSettings.sent) =>
             /\ popupSettings.writes # <<>>
             /\ popupSettings'.writes = Tail(popupSettings.writes)
             /\ store'.filterSettings = <<Head(popupSettings.writes).blob>>
       /\ \A i \in Inst :
             (createdBy[i] > 0 /\ ipc[i] = "loadSettings" /\ ipc'[i] # "loadSettings") =>
                /\ store.filterSettings # <<>>
                /\ ChangeOf(store.filterSettings[1]) >= createdBy[i]]_vars

DuplicateFree(list) ==
    \A j, m \in 1..Len(list) : list[j] = list[m] => j = m

Sorted(list) ==
    \A j \in 1..(Len(list) - 1) : StringLess(list[j], list[j + 1])

\* lower-case, r/ followed by a non-empty name
CanonicalSubreddit(s) ==
    /\ Len(s) > 2
    /\ s[1] = "r" /\ s[2] = "/"
    /\ \A j \in 1..Len(s) : s[j] \notin UpperLetters

\* the step is a call of one of the four list operations of the popup
ListOperation ==
    \/ \E input \in KeywordInputs : PopupAddKeyword(input)
    \/ \E input \in SubredditInputs : PopupAddSubreddit(input)
    \/ \E j \in 1..Len(popupSettings.settings.keywords) :
          PopupRemoveKeyword(popupSettings.settings.keywords[j])
    \/ \E j \in 1..Len(popupSettings.settings.subreddits) :
          PopupRemoveSubreddit(popupSettings.settings.subreddits[j])

\* adding "", a bare "r/" or an entry that is in the list leaves the page
\* as it was: the lists, and the saves issued (each save that lands sends
\* one settingsUpdated)
AddingNothingNew ==
    /\ \A input \in KeywordInputs :
          /\ PopupAddKeyword(input)
          /\ input = <<>> \/ includes(popupSettings.settings.keywords, input)
          => popupSettings' = popupSettings
    /\ \A input \in SubredditInputs :
          /\ PopupAddSubreddit(input)
          /\ \/ input = <<>>
             \/ input = <<"r", "/">>
             \/ includes(popupSettings.settings.subreddits, input)
          => popupSettings' = popupSettings

\* C33 (as stated): starting from duplicate-free lower-case lists, after
\* every addKeyword, removeKeyword, addSubreddit or removeSubreddit of the
\* popup both lists are duplicate-free and sorted, every subreddit entry is
\* lower-case and is r/ followed by a non-empty name, and adding "", a bare
\* "r/" or an entry already present changes nothing and issues no save.
C33_ListsStaySortedAndDuplicateFree ==
    [][/\ ListOperation =>
            /\ DuplicateFree(popupSettings'.settings.keywords)
            /\ DuplicateFree(popupSettings'.settings.subreddits)
            /\ Sorted(popupSettings'.settings.keywords)
            /\ Sorted(popupSettings'.settings.subreddits)
            /\ \A j \in 1..Len(popupSettings'.settings.subreddits) :
                  CanonicalSubreddit(popupSettings'.settings.subreddits[j])
       /\ AddingNothingNew]_vars

\* C33 (amended): starting from duplicate-free lower-case lists, after
\* every list operation of the popup both lists are duplicate-free and every
\* subreddit entry is lower-case and is r/ followed by a non-empty name; an
\* add that changes a list leaves it sorted and issues one save; every
\* operation keeps a sorted list sorted; adding "", a bare "r/" or an entry
\* already present changes nothing and issues no save.
C33_DuplicateFreeAndSortedByAdds ==
    [][/\ ListOperation =>
            /\ DuplicateFree(popupSettings'.settings.keywords)
            /\ DuplicateFree(popupSettings'.settings.subreddits)
            /\ \A j \in 1..Len(popupSettings'.settings.subreddits) :
                  CanonicalSubreddit(popupSettings'.settings.subreddits[j])
            /\ Sorted(popupSettings.settings.keywords)
                  => Sorted(popupSettings'.settings.keywords)
            /\ Sorted(popupSettings.settings.subreddits)
                  => Sorted(popupSettings'.settings.subreddits)
            /\ Len(popupSettings'.settings.keywords) > Len(popupSettings.settings.keywords)
                  => /\ Sorted(popupSettings'.settings.keywords)
                     /\ Len(popupSettings'.writes) = Len(popupSettings.writes) + 1
            /\ Len(popupSettings'.settings.subreddits) > Len(popupSettings.settings.subreddits)
                  => /\ Sorted(popupSettings'.settings.subreddits)
                     /\ Len(popupSettings'.writes) = Len(popupSettings.writes) + 1
       /\ AddingNothingNew]_vars

\* reached: "cake" was added to the stored list news, cats, ban, which is
\* now sorted, and a bare "R/ " was then typed into the subreddit field,
\* which changed nothing
C33_Witness ==
    /\ popupSettings.settings.keywords = <<K_ban, T_cake, T_cats, K_news>>
    /\ popupSettings.changes = 1
    /\ Len(popupSettings.writes) + Len(popupSettings.sent) <= 1
    /\ call = [fn |-> "addSubreddit", input |-> <<"R", "/", " ">>]

\* a step of instance i: of its init(), of one of its timer callbacks or of
\* one of its age-check batches
StepOf(i) == ipc'[i] # ipc[i] \/ CallbackOf(i)

\* C34: an instance whose loaded settings have enabled = false never scans,
\* connects no observer and sets no timer: it has no debounce timeout, no
\* pending scan and no age-check batch, none of its steps changes the feed
\* or runs a lookup, and its counters change only when loadCounters takes
\* the stored blob (the total as stored, the daily count as stored or reset
\* to 0 on a new date).
C34_DisabledInstanceDoesNothing ==
    [][\A i \in Inst :
          ~settings'[i].enabled =>
              /\ ~observer'[i]
              /\ periodicTimer'[i] = 0
              /\ debounce'[i] = <<>>
              /\ deferred'[i] = 0
              /\ \A b \in BatchIds : batches'[b].pc # "free" => batches'[b].inst # i
              /\ ~CallbackOf(i)
              /\ StepOf(i) => feed' = feed /\ lastRequestAt'[i] = lastRequestAt[i]
              /\ counters'[i] # counters[i] =>
                    /\ ipc[i] = "loadCounters"
                    /\ store.filterCounters # <<>>
                    /\ counters'[i].totalRemoved = store.filterCounters[1].totalRemoved
                    /\ counters'[i].dailyRemoved \in {0, store.filterCounters[1].dailyRemoved}
                    /\ counters'[i].lastResetDate = Today(now)]_vars

\* reached: the second instance, created by settingsUpdated while the feed
\* holds a post, loaded disabled settings and finished init(); the post of
\* the feed is still there after one poll period, and the instance's
\* counters are the stored ones
C34_Witness ==
    /\ ninst = 2
    /\ ipc[2] = "done"
    /\ ~settings[2].enabled
    /\ feed = {3}
    /\ now = Ticks(POLL_MS)
    /\ counters[2].totalRemoved = 5
    /\ counters[2].dailyRemoved = 0

\* a request of instance i is outstanding: fetch() has been called and its
\* response has not arrived
AwaitsResponse(i) ==
    \E b \in BatchIds : batches[b].inst = i /\ batches[b].pc = "fetch"

\* C35 (as stated): once the known remaining budget of an instance is at or
\* below 20, its rate-limit state never changes again, and with the budget
\* at or below 20 the instance issues no request.
C35_FrozenAtOrBelowFloor ==
    [][\A i \in Inst :
          /\ rateLimitInfo[i].remaining <= RATE_FLOOR =>
                rateLimitInfo'[i] = rateLimitInfo[i]
          /\ rateLimitInfo'[i].remaining <= RATE_FLOOR =>
                \A b \in BatchIds : batches'[b].inst = i => ~Issues(b)]_vars

\* C35 (amended): while the known remaining budget of an instance is at or
\* below 20 the instance issues no request; its rate-limit state changes
\* only when the response to a request issued earlier arrives; and once the
\* budget is at or below 20 with no request outstanding, it stays so and the
\* rate-limit state never changes again, also after the recorded reset
\* timestamp has passed.  A new instance starts from a budget of 500.
C35_FrozenOnceNothingOutstanding ==
    [][/\ \A i \in Inst :
             /\ rateLimitInfo'[i].remaining <= RATE_FLOOR =>
                   \A b \in BatchIds : batches'[b].inst = i => ~Issues(b)
             /\ rateLimitInfo'[i] # rateLimitInfo[i] /\ ninst' = ninst =>
                   \E b \in BatchIds :
                       /\ batches[b].inst = i
                       /\ batches[b].pc = "fetch"
                       /\ batches'[b].pc # "fetch" \/ batches'[b].posts # batches[b].posts
             /\ rateLimitInfo[i].remaining <= RATE_FLOOR /\ ~AwaitsResponse(i) =>
                   /\ rateLimitInfo'[i] = rateLimitInfo[i]
                   /\ ~AwaitsResponse(i)'
       /\ ninst' # ninst => rateLimitInfo'[ninst'].remaining = INITIAL_REMAINING]_vars

\* reached: the budget is 15, the reset the response reported has passed,
\* nothing is outstanding, and a lookup for an uncached author has just been
\* refused on the floor check
C35_Witness ==
    /\ rateLimitInfo[1].remaining = 15
    /\ now > rateLimitInfo[1].reset
    /\ ~AwaitsResponse(1)
    /\ <<"bo", "floor">> \in lookups

\* loadSettings() or loadCounters() of instance i has not completed
Loading(i) ==
    ipc[i] \in {"loadSettings", "saveSettings", "saveSettingsInFlight",
                "loadCounters", "saveCounters"}

\* C36: an instance removes posts and increments counters only in steps
\* that begin after its loadSettings has completed and end with its
\* loadCounters completed: every scan and every callback of the instance
\* runs with the settings the load left, every post that leaves the feed is
\* removed by such a step, the counters the load replaces are still the
\* constructor's zeroes, and while a load is pending the instance has no
\* observer, timer, pending scan or batch.
C36_NothingBeforeBothLoads ==
    [][/\ \A i \in Inst :
             /\ ScanReturns(i) \/ CallbackOf(i) =>
                   /\ ipc[i] \in {"loadCounters", "saveCounters", "done"}
                   /\ ipc'[i] = "done"
                   /\ settings'[i] = settings[i]
             /\ settings'[i] # settings[i] => ipc[i] = "loadSettings"
             /\ ipc[i] \in {"loadSettings", "saveSettings", "saveSettingsInFlight",
                            "loadCounters"} =>
                   /\ counters[i].totalRemoved = 0
                   /\ counters[i].dailyRemoved = 0
             /\ Loading(i)' =>
                   /\ ~observer'[i]
                   /\ periodicTimer'[i] = 0
                   /\ debounce'[i] = <<>>
                   /\ deferred'[i] = 0
                   /\ \A b \in BatchIds : batches'[b].pc # "free" => batches'[b].inst # i
                   /\ counters'[i] # counters[i] => ipc[i] \in {"none", "loadCounters"}
       /\ feed \ feed' # {} => \E i \in Inst : ScanReturns(i) \/ CallbackOf(i)
       /\ \A i \in Inst :
             counters'[i].totalRemoved > counters[i].totalRemoved /\ ipc[i] = "done" =>
                 ScanReturns(i) \/ CallbackOf(i)]_vars

\* reached: the second instance loaded settings and the stored counters
\* (total 5) and has since removed both nodes of the inserted post
C36_Witness ==
    /\ ninst = 2
    /\ ipc[2] = "done"
    /\ settings[2].enabled
    /\ counters[2].totalRemoved = 7
    /\ feed = {}

====
